---- MODULE Spec2Model ----
(***************************************************************************)
(* Model of the oci-digest package: the algorithm registry (algorithm.go), *)
(* the hex encoder (encoding.go), the Digest value (digest.go) and the     *)
(* digesting writer.  Strings are sequences of one-character strings and   *)
(* byte slices are sequences of numbers 0..255.                            *)
(***************************************************************************)
EXTENDS Integers, Sequences, FiniteSets, TLC

\* ------------------------------------------------------------------ bounds
MaxEncLen == 2      \* longest free-form encoded part of a Parse input
MaxDataLen == 1     \* longest byte slice given to FromBytes
NumThreads == 2     \* concurrent callers of the registry
MaxWritten == 2     \* most bytes that pass through one Reader or Writer
NumDigesters == 2   \* Digesters a caller holds at once

\* --------------------------------------------------------------- characters
Digits == {"0", "1", "2", "3", "4", "5", "6", "7", "8", "9"}
LowerLetters == {"a", "b", "c", "d", "e", "f", "g", "h", "i", "j", "k", "l",
                 "m", "n", "o", "p", "q", "r", "s", "t", "u", "v", "w", "x",
                 "y", "z"}
UpperLetters == {"A", "B", "C", "D", "E", "F", "G", "H", "I", "J", "K", "L",
                 "M", "N", "O", "P", "Q", "R", "S", "T", "U", "V", "W", "X",
                 "Y", "Z"}
HexLetters == {"a", "b", "c", "d", "e", "f"}
NameChars == LowerLetters \cup Digits
NameSeparators == {"+", ".", "_", "-"}
EncodedChars == LowerLetters \cup UpperLetters \cup Digits \cup {"=", "_", "-"}

\* Characters outside ASCII, written by their code point: e-acute takes two
\* bytes in a Go string and the euro sign three; every other character of
\* the model takes one.
EAcute == "U+00E9"
EuroSign == "U+20AC"
MultiByteChars == {EAcute, EuroSign}
Utf8Len(c) == IF c = EAcute THEN 2 ELSE IF c = EuroSign THEN 3 ELSE 1

EmptyString == << >>

\* len(s) of a Go string: its length in bytes.
ByteLen(s) ==
    Len(s) + Cardinality({i \in 1..Len(s) : Utf8Len(s[i]) = 2})
           + 2 * Cardinality({i \in 1..Len(s) : Utf8Len(s[i]) = 3})

\* A byte slice that tells nil from empty: the argument and the result of
\* AppendText.  Its data are the characters of the text.
NilBuf == [nil |-> TRUE, data |-> << >>]
Buf(data) == [nil |-> FALSE, data |-> data]

\* ------------------------------------------------------------------ errors
NoError == "nil"
ErrAlgorithmExists == "ErrAlgorithmExists"
ErrAlgorithmInvalidName == "ErrAlgorithmInvalidName"
ErrAlgorithmUnknown == "ErrAlgorithmUnknown"
ErrDigestInvalid == "ErrDigestInvalid"
ErrEncodeInterfaceInvalid == "ErrEncodeInterfaceInvalid"
ErrEncodingInvalid == "ErrEncodingInvalid"
ErrHashFunctionInvalid == "ErrHashFunctionInvalid"
ErrHashInterfaceInvalid == "ErrHashInterfaceInvalid"
ErrReaderInvalid == "ErrReaderInvalid"
ErrWriterInvalid == "ErrWriterInvalid"
\* Errors of the code around the package: io.EOF, the error of an underlying
\* io.Writer or io.Reader, the error of a hash.Hash that rejects a write.
EOF == "EOF"
ErrSink == "ErrSink"
ErrSource == "ErrSource"
ErrHashWrite == "ErrHashWrite"

\* ------------------------------------------------------------- name grammar
\* algorithmRegexp ^[a-z0-9]+([+._-][a-z0-9]+)*$ run as an automaton:
\* "start" and "sep" expect a name character, "word" is the accepting state.
RECURSIVE algorithmRegexpRun(_, _, _)
algorithmRegexpRun(s, i, st) ==
    IF i > Len(s) THEN st = "word"
    ELSE IF s[i] \in NameChars THEN algorithmRegexpRun(s, i + 1, "word")
    ELSE IF s[i] \in NameSeparators /\ st = "word"
         THEN algorithmRegexpRun(s, i + 1, "sep")
    ELSE FALSE

algorithmRegexpMatch(s) == algorithmRegexpRun(s, 1, "start")

\* strings.Cut(s, ":"): split around the first colon.
ColonIndexes(s) == {i \in 1..Len(s) : s[i] = ":"}
FirstColon(s) == CHOOSE i \in ColonIndexes(s) : \A j \in ColonIndexes(s) : i <= j
Cut(s) ==
    IF ColonIndexes(s) = {}
    THEN [before |-> s, after |-> EmptyString, found |-> FALSE]
    ELSE [before |-> SubSeq(s, 1, FirstColon(s) - 1),
          after |-> SubSeq(s, FirstColon(s) + 1, Len(s)),
          found |-> TRUE]

\* DigestRegexpParts ^([a-z0-9]+(?:[.+_-][a-z0-9]+)*):([a-zA-Z0-9=_-]+)$
\* The name group cannot contain a colon, so the groups are the two sides of
\* the first colon.
DigestRegexpPartsMatch(s) ==
    /\ Cut(s).found
    /\ algorithmRegexpMatch(Cut(s).before)
    /\ Len(Cut(s).after) > 0
    /\ \A i \in 1..Len(Cut(s).after) : Cut(s).after[i] \in EncodedChars

\* ------------------------------------------------------------------ encoder
NilEncoder == [kind |-> "nil", Len |-> 0]
EncodeHex(n) == [Len |-> n, kind |-> "hex"]

HexDigitSeq == <<"0", "1", "2", "3", "4", "5", "6", "7", "8", "9",
                 "a", "b", "c", "d", "e", "f">>

RECURSIVE HexOfBytes(_)
HexOfBytes(p) ==
    IF p = << >> THEN EmptyString
    ELSE <<HexDigitSeq[(Head(p) \div 16) + 1], HexDigitSeq[(Head(p) % 16) + 1]>>
         \o HexOfBytes(Tail(p))

RECURSIVE Spaces(_)
Spaces(n) == IF n <= 0 THEN EmptyString ELSE <<" ">> \o Spaces(n - 1)

\* fmt.Sprintf("%*x", width, p): lower-case hex, left-padded to the width.
SprintfHex(width, p) == Spaces(width - 2 * Len(p)) \o HexOfBytes(p)

\* EncodeHex.Encode without the length check: the width pads the text.
EncodeHexEncodeNoLenCheck(e, p) ==
    [text |-> SprintfHex(e.Len, p), err |-> NoError]

\* EncodeHex.Encode
EncodeHexEncode(e, p) ==
    IF Len(p) * 2 # e.Len
    THEN [text |-> EmptyString, err |-> ErrEncodingInvalid]
    ELSE [text |-> SprintfHex(e.Len, p), err |-> NoError]

\* isHex accepting upper-case digits as well.
isHexAnyCase(s) ==
    \A i \in 1..Len(s) :
        s[i] \in HexLetters \cup Digits \cup {"A", "B", "C", "D", "E", "F"}

\* isHex ranges over the runes of s.
isHex(s) == \A i \in 1..Len(s) : s[i] \in HexLetters \cup Digits

\* EncodeHex.Validate: len(s) counts bytes.
EncodeHexValidate(e, s) == ByteLen(s) = e.Len /\ isHex(s)

Validate(enc, s) == EncodeHexValidate(enc, s)
Encode(enc, p) == EncodeHexEncode(enc, p)

\* ------------------------------------------------------------------- hashes
\* A hash factory is nil, a function returning nil, or a function returning a
\* hash.Hash that reports the given size.
SHA256Size == 32
SHA512Size == 64
SHA256HexLen == 64
SHA512HexLen == 128

NilFactory == [kind |-> "nil", id |-> "nil", size |-> 0]
NilReturnFactory == [kind |-> "nilret", id |-> "nilret", size |-> 0]
HashFactory(id, n) == [kind |-> "hash", id |-> id, size |-> n]
\* A factory whose hash.Hash returns an error from every Write.
RejectingFactory(id, n) == [kind |-> "rejecting", id |-> id, size |-> n]
sha256New == HashFactory("sha256", SHA256Size)
sha512New == HashFactory("sha512", SHA512Size)

NilHash == [kind |-> "nil", id |-> "nil", size |-> 0, data |-> << >>]
\* newFn(): the hash a factory returns, with nothing written yet.
NewHash(newFn) ==
    IF newFn.kind \in {"hash", "rejecting"}
    THEN [kind |-> newFn.kind, id |-> newFn.id, size |-> newFn.size,
          data |-> << >>]
    ELSE NilHash

\* Variant of HashWrite that forgets what was written before.
HashWriteReset(h, p) == [h EXCEPT !.data = p]

\* hash.Hash.Write: the accumulator is fed the bytes.
HashWrite(h, p) == [h EXCEPT !.data = h.data \o p]

\* An error value is modelled by the set of causes errors.Is finds in it: nil
\* is the empty set, errors.Join is the union.
NoCauses == {}
Causes(err) == IF err = NoError THEN NoCauses ELSE {err}

\* The error hash.Hash.Write returns.
HashWriteErr(h) == IF h.kind = "rejecting" THEN {ErrHashWrite} ELSE NoCauses

RECURSIVE Mix(_, _)
Mix(data, acc) ==
    IF data = << >> THEN acc
    ELSE Mix(Tail(data), (acc * 7 + Head(data) + 1) % 251)

\* hash.Hash.Sum(nil): Size() bytes that depend on everything written.  The
\* cryptographic function itself is outside the package; it is abstracted by
\* a deterministic mixing function.
HashSum(h) == [i \in 1..h.size |-> (Mix(h.data, Len(h.id)) + 3 * i) % 256]

\* ----------------------------------------------------------------- registry
ZeroAlgorithm == [name |-> EmptyString]
ZeroInfo == [name |-> EmptyString, size |-> 0, enc |-> NilEncoder,
             newFn |-> NilFactory]
ZeroDigest == [alg |-> EmptyString, enc |-> EmptyString]

sha256Name == <<"s", "h", "a", "2", "5", "6">>
sha512Name == <<"s", "h", "a", "5", "1", "2">>

NoAlgorithms == [n \in {} |-> ZeroInfo]

\* Variant of algorithmInfoRegisterCheck that tests the encoder before the
\* name.
algorithmInfoRegisterCheckEncoderFirst(algs, name, enc, newFn) ==
    IF enc = NilEncoder THEN ErrEncodeInterfaceInvalid
    ELSE IF name \in DOMAIN algs THEN ErrAlgorithmExists
    ELSE IF ~algorithmRegexpMatch(name) THEN ErrAlgorithmInvalidName
    ELSE IF newFn.kind = "nil" THEN ErrHashFunctionInvalid
    ELSE IF NewHash(newFn) = NilHash THEN ErrHashFunctionInvalid
    ELSE IF NewHash(newFn).size <= 0 THEN ErrHashFunctionInvalid
    ELSE NoError

\* Variant of algorithmInfoRegisterCheck without the test for an existing
\* name.
algorithmInfoRegisterCheckNoExists(algs, name, enc, newFn) ==
    IF ~algorithmRegexpMatch(name) THEN ErrAlgorithmInvalidName
    ELSE IF enc = NilEncoder THEN ErrEncodeInterfaceInvalid
    ELSE IF newFn.kind = "nil" THEN ErrHashFunctionInvalid
    ELSE IF NewHash(newFn) = NilHash THEN ErrHashFunctionInvalid
    ELSE IF NewHash(newFn).size <= 0 THEN ErrHashFunctionInvalid
    ELSE NoError

\* The checks of algorithmInfoRegister in source order, made with
\* algorithmsMu write-locked on the map algs: the error of the first failing
\* check, or NoError.
algorithmInfoRegisterCheck(algs, name, enc, newFn) ==
    IF name \in DOMAIN algs THEN ErrAlgorithmExists
    ELSE IF ~algorithmRegexpMatch(name) THEN ErrAlgorithmInvalidName
    ELSE IF enc = NilEncoder THEN ErrEncodeInterfaceInvalid
    ELSE IF newFn.kind = "nil" THEN ErrHashFunctionInvalid
    ELSE IF NewHash(newFn) = NilHash THEN ErrHashFunctionInvalid
    ELSE IF NewHash(newFn).size <= 0 THEN ErrHashFunctionInvalid
    ELSE NoError

\* Variant of algorithmInfoRecord that takes the size from the encoder's
\* text length.
algorithmInfoRecordSizeOfText(name, enc, newFn) ==
    [name |-> name, size |-> enc.Len, enc |-> enc, newFn |-> newFn]

\* The record algorithmInfoRegister builds once the checks passed.
algorithmInfoRecord(name, enc, newFn) ==
    [name |-> name, size |-> NewHash(newFn).size, enc |-> enc, newFn |-> newFn]

\* algorithms[name] = alg
algorithmInfoRegisterStore(algs, name, enc, newFn) ==
    [n \in DOMAIN algs \cup {name} |->
        IF n = name THEN algorithmInfoRecord(name, enc, newFn) ELSE algs[n]]

\* A whole call of algorithmInfoRegister on the map algs.
algorithmInfoRegister(algs, name, enc, newFn) ==
    IF algorithmInfoRegisterCheck(algs, name, enc, newFn) # NoError
    THEN [algs |-> algs, ai |-> ZeroInfo, alg |-> ZeroAlgorithm,
          err |-> algorithmInfoRegisterCheck(algs, name, enc, newFn)]
    ELSE [algs |-> algorithmInfoRegisterStore(algs, name, enc, newFn),
          ai |-> algorithmInfoRecord(name, enc, newFn),
          alg |-> [name |-> name], err |-> NoError]

\* The part of algorithmInfoLookup that runs with algorithmsMu read-locked.
algorithmInfoLookupLocked(algs, name) ==
    IF name \in DOMAIN algs
    THEN [ai |-> algs[name], alg |-> [name |-> algs[name].name],
          err |-> NoError]
    ELSE [ai |-> ZeroInfo, alg |-> ZeroAlgorithm, err |-> ErrAlgorithmUnknown]

\* ----------------------------------------------------------------- digests
\* Variant of Equal that compares the algorithm only.
EqualAlgorithmOnly(d, cmp) == d.alg = cmp.alg

\* Digest.IsZero, Digest.Equal, Digest.String, Digest.Algorithm, Digest.Encoded
IsZero(d) == d.alg = EmptyString /\ d.enc = EmptyString
Equal(d, cmp) == d.alg = cmp.alg /\ d.enc = cmp.enc
String(d) ==
    IF d.alg = EmptyString \/ d.enc = EmptyString THEN EmptyString
    ELSE d.alg \o <<":">> \o d.enc
DigestAlgorithm(d) == [name |-> d.alg]
Encoded(d) == d.enc

\* NewDigest after its algorithmInfoLookup returned look.
NewDigestFinish(alg, h, look) ==
    IF look.err # NoError THEN [d |-> ZeroDigest, err |-> look.err]
    ELSE IF h = NilHash \/ h.size # look.ai.size
         THEN [d |-> ZeroDigest, err |-> ErrHashInterfaceInvalid]
    ELSE IF Encode(look.ai.enc, HashSum(h)).err # NoError
         THEN [d |-> ZeroDigest, err |-> Encode(look.ai.enc, HashSum(h)).err]
    ELSE [d |-> [alg |-> alg.name, enc |-> Encode(look.ai.enc, HashSum(h)).text],
          err |-> NoError]

\* NewDigestFromEncoded after its algorithmInfoLookup returned look.
NewDigestFromEncodedFinish(alg, encoded, look) ==
    IF look.err # NoError THEN [d |-> ZeroDigest, err |-> look.err]
    ELSE IF ~Validate(look.ai.enc, encoded)
         THEN [d |-> ZeroDigest, err |-> ErrEncodingInvalid]
    ELSE [d |-> [alg |-> alg.name, enc |-> encoded], err |-> NoError]

\* Variant of ParseFinish that matches DigestRegexpParts before the lookup
\* result is used.
ParseFinishRegexpFirst(s, look) ==
    IF ~DigestRegexpPartsMatch(s)
    THEN [d |-> ZeroDigest, err |-> ErrDigestInvalid]
    ELSE IF look.err # NoError THEN [d |-> ZeroDigest, err |-> look.err]
    ELSE IF look.ai.enc = NilEncoder \/ ~Validate(look.ai.enc, Cut(s).after)
         THEN [d |-> ZeroDigest, err |-> ErrEncodingInvalid]
    ELSE [d |-> [alg |-> Cut(s).before, enc |-> Cut(s).after], err |-> NoError]

\* Variant of ParseFinish that validates the encoding before it looks at the
\* error of the lookup.
ParseFinishEncodingFirst(s, look) ==
    IF look.ai.enc = NilEncoder \/ ~Validate(look.ai.enc, Cut(s).after)
    THEN [d |-> ZeroDigest, err |-> ErrEncodingInvalid]
    ELSE IF look.err # NoError THEN [d |-> ZeroDigest, err |-> look.err]
    ELSE [d |-> [alg |-> Cut(s).before, enc |-> Cut(s).after], err |-> NoError]

\* Parse after strings.Cut found the colon and algorithmInfoLookup of the
\* algorithm part returned look.
ParseFinish(s, look) ==
    IF look.err # NoError THEN [d |-> ZeroDigest, err |-> look.err]
    ELSE IF look.ai.enc = NilEncoder \/ ~Validate(look.ai.enc, Cut(s).after)
         THEN [d |-> ZeroDigest, err |-> ErrEncodingInvalid]
    ELSE [d |-> [alg |-> Cut(s).before, enc |-> Cut(s).after], err |-> NoError]

\* -------------------------------------------------------------------- state
VARIABLES
    algorithms,     \* map name -> algorithmInfo
    algorithmsMu,   \* sync.RWMutex: the write holder (0: none), the read holders
    aiSHA256, aiSHA512, aiCanonical,    \* records of the built-in algorithms
    SHA256, SHA512, Canonical,          \* handles of the built-in algorithms
    pc,             \* per thread: "idle", "reg" and "store" (write-locked), "rlocked"
    call,           \* per thread: the call in progress or last completed
    ret,            \* per thread: what the last completed call returned
    wr,             \* the Writers a caller holds: w, alg and the hash they own
    sink,           \* per Writer: the bytes its underlying io.Writer holds
    rd,             \* the Reader a caller holds: r, alg and the hash it owns
    source,         \* the underlying io.Reader: the bytes left and given out
    io,             \* the last call on a Reader or Writer and its results
    digest          \* the Digest a caller holds: the receiver of UnmarshalText

vars == <<algorithms, algorithmsMu, aiSHA256, aiSHA512, aiCanonical,
          SHA256, SHA512, Canonical, pc, call, ret, wr, sink, rd, source, io,
          digest>>

\* The state of the Readers, the Writers and the caller's Digest.
Digesters == <<wr, sink, rd, source, io, digest>>

Threads == 1..NumThreads

\* ------------------------------------------------------------------- writer
NilSink == "nil"
ZeroWriter == [w |-> NilSink, alg |-> ZeroAlgorithm, hash |-> NilHash]

\* alg.newFn: the hash factory the handle resolves to.
newFnOf(alg) ==
    IF alg.name \in DOMAIN algorithms THEN algorithms[alg.name].newFn
    ELSE NilFactory

NewWriter(w, alg) ==
    IF alg.name = EmptyString \/ newFnOf(alg).kind = "nil"
    THEN [w |-> w, alg |-> Canonical, hash |-> NewHash(aiCanonical.newFn)]
    ELSE [w |-> w, alg |-> alg, hash |-> NewHash(newFnOf(alg))]

\* Writer.Write without an underlying writer: n = len(p), all of p is hashed.
WriterWrite(w, p) ==
    IF w.hash = NilHash THEN [w |-> w, n |-> 0, err |-> ErrWriterInvalid]
    ELSE IF Len(p) <= 0 THEN [w |-> w, n |-> Len(p), err |-> NoError]
    ELSE [w |-> [w EXCEPT !.hash = HashWrite(w.hash, p)], n |-> Len(p),
          err |-> IF HashWriteErr(w.hash) = NoCauses THEN NoError
                  ELSE ErrHashWrite]

\* -------------------------------------------------------------------- calls
NoSource == [fromDigest |-> FALSE, op |-> "none", d |-> ZeroDigest]
NoCall == [op |-> "none", name |-> EmptyString, enc |-> NilEncoder,
           newFn |-> NilFactory, s |-> EmptyString, alg |-> ZeroAlgorithm,
           h |-> NilHash, p |-> << >>, w |-> ZeroWriter, src |-> NoSource]
Pending == [done |-> FALSE, ai |-> ZeroInfo, alg |-> ZeroAlgorithm,
            d |-> ZeroDigest, err |-> NoError]
Returned(ai, alg, d, err) ==
    [done |-> TRUE, ai |-> ai, alg |-> alg, d |-> d, err |-> err]

\* What a call returns before it reaches algorithmInfoLookup, if it does.
EarlyReturn(c) ==
    CASE c.op = "Parse" /\ c.s = EmptyString ->
            [early |-> TRUE, d |-> ZeroDigest, err |-> NoError]
      [] c.op = "Parse" /\ c.s # EmptyString /\ ~Cut(c.s).found ->
            [early |-> TRUE, d |-> ZeroDigest, err |-> ErrDigestInvalid]
      [] c.op = "FromBytes" /\ c.alg.name = EmptyString ->
            [early |-> TRUE, d |-> ZeroDigest, err |-> ErrAlgorithmInvalidName]
      [] c.op = "FromBytes" /\ c.alg.name # EmptyString
                            /\ WriterWrite(NewWriter(NilSink, c.alg), c.p).err # NoError ->
            [early |-> TRUE, d |-> ZeroDigest,
             err |-> WriterWrite(NewWriter(NilSink, c.alg), c.p).err]
      [] OTHER -> [early |-> FALSE, d |-> ZeroDigest, err |-> NoError]

\* The name a call hands to algorithmInfoLookup.
LookupName(c) ==
    CASE c.op = "Lookup" -> c.name
      [] c.op = "Parse" -> Cut(c.s).before
      [] c.op = "FromBytes" -> c.w.alg.name
      [] OTHER -> c.alg.name

\* What a call returns once algorithmInfoLookup returned look.
Finish(c, look) ==
    CASE c.op = "Lookup" -> Returned(look.ai, look.alg, ZeroDigest, look.err)
      [] c.op = "Parse" ->
            Returned(look.ai, ZeroAlgorithm, ParseFinish(c.s, look).d,
                     ParseFinish(c.s, look).err)
      [] c.op = "NewDigest" ->
            Returned(look.ai, ZeroAlgorithm, NewDigestFinish(c.alg, c.h, look).d,
                     NewDigestFinish(c.alg, c.h, look).err)
      [] c.op = "NewDigestFromEncoded" ->
            Returned(look.ai, ZeroAlgorithm,
                     NewDigestFromEncodedFinish(c.alg, c.s, look).d,
                     NewDigestFromEncodedFinish(c.alg, c.s, look).err)
      [] c.op = "FromBytes" ->
            Returned(look.ai, ZeroAlgorithm,
                     NewDigestFinish(c.w.alg, c.w.hash, look).d,
                     NewDigestFinish(c.w.alg, c.w.hash, look).err)

\* The names algorithmInfoLookup answers without taking the lock.
LockFree(name) == name \in {sha256Name, sha512Name, EmptyString}

\* Variant of algorithmInfoLookupFast without the case for the empty name.
algorithmInfoLookupFastNoEmpty(name) ==
    CASE name = sha256Name -> [ai |-> aiSHA256, alg |-> SHA256, err |-> NoError]
      [] name = sha512Name -> [ai |-> aiSHA512, alg |-> SHA512, err |-> NoError]
      [] OTHER ->
            [ai |-> ZeroInfo, alg |-> ZeroAlgorithm, err |-> ErrAlgorithmUnknown]

\* The lock-free switch at the top of algorithmInfoLookup.
algorithmInfoLookupFast(name) ==
    CASE name = sha256Name -> [ai |-> aiSHA256, alg |-> SHA256, err |-> NoError]
      [] name = sha512Name -> [ai |-> aiSHA512, alg |-> SHA512, err |-> NoError]
      [] name = EmptyString ->
            [ai |-> ZeroInfo, alg |-> ZeroAlgorithm, err |-> ErrAlgorithmInvalidName]

\* ------------------------------------------------------------------ actions
Globals == <<aiSHA256, aiSHA512, aiCanonical, SHA256, SHA512, Canonical>>

\* A call that goes through algorithmInfoLookup: it returns at once when it
\* fails early or the name is one of the lock-free cases, and otherwise takes
\* the read lock (blocked while a writer holds the mutex).
Begin(t, c) ==
    /\ pc[t] = "idle"
    /\ call' = [call EXCEPT ![t] = c]
    /\ UNCHANGED <<algorithms, Globals, Digesters>>
    /\ IF EarlyReturn(c).early
       THEN /\ ret' = [ret EXCEPT ![t] =
                        Returned(ZeroInfo, ZeroAlgorithm, EarlyReturn(c).d,
                                 EarlyReturn(c).err)]
            /\ UNCHANGED <<pc, algorithmsMu>>
       ELSE IF LockFree(LookupName(c))
       THEN /\ ret' = [ret EXCEPT ![t] =
                        Finish(c, algorithmInfoLookupFast(LookupName(c)))]
            /\ UNCHANGED <<pc, algorithmsMu>>
       ELSE /\ algorithmsMu.writer = 0
            /\ algorithmsMu' = [algorithmsMu EXCEPT !.readers = @ \cup {t}]
            /\ pc' = [pc EXCEPT ![t] = "rlocked"]
            /\ ret' = [ret EXCEPT ![t] = Pending]

\* The read-locked map access of algorithmInfoLookup, the deferred RUnlock and
\* the rest of the calling function.
algorithmInfoLookupReturn(t) ==
    /\ pc[t] = "rlocked"
    /\ ret' = [ret EXCEPT ![t] =
                Finish(call[t],
                       algorithmInfoLookupLocked(algorithms, LookupName(call[t])))]
    /\ algorithmsMu' = [algorithmsMu EXCEPT !.readers = @ \ {t}]
    /\ pc' = [pc EXCEPT ![t] = "idle"]
    /\ UNCHANGED <<algorithms, Globals, call, Digesters>>

AlgorithmLookup(t, name) ==
    Begin(t, [NoCall EXCEPT !.op = "Lookup", !.name = name])

Parse(t, s) ==
    Begin(t, [NoCall EXCEPT !.op = "Parse", !.s = s])

\* Parse(d.String()) of the digest the thread's previous call returned.
ParseString(t) ==
    /\ ret[t].done /\ ret[t].err = NoError
    /\ call[t].op \in {"FromBytes", "NewDigest", "NewDigestFromEncoded"}
    /\ Begin(t, [NoCall EXCEPT !.op = "Parse", !.s = String(ret[t].d),
                               !.src = [fromDigest |-> TRUE, op |-> call[t].op,
                                        d |-> ret[t].d]])

NewDigest(t, alg, h) ==
    Begin(t, [NoCall EXCEPT !.op = "NewDigest", !.alg = alg, !.h = h])

NewDigestFromEncoded(t, alg, encoded) ==
    Begin(t, [NoCall EXCEPT !.op = "NewDigestFromEncoded", !.alg = alg,
                            !.s = encoded])

\* Algorithm.FromBytes: Digester(), Write(p), then Digest() of the writer.
FromBytes(t, a, p) ==
    Begin(t, [NoCall EXCEPT !.op = "FromBytes", !.alg = a, !.p = p,
                            !.w = WriterWrite(NewWriter(NilSink, a), p).w])

\* Variant of AlgorithmRegisterLock that does not wait for the mutex.
AlgorithmRegisterNoLock(t, name, enc, newFn) ==
    /\ pc[t] = "idle"
    /\ algorithmsMu' = [algorithmsMu EXCEPT !.writer = t]
    /\ pc' = [pc EXCEPT ![t] = "reg"]
    /\ call' = [call EXCEPT ![t] = [NoCall EXCEPT !.op = "Register",
                   !.name = name, !.enc = enc, !.newFn = newFn]]
    /\ ret' = [ret EXCEPT ![t] = Pending]
    /\ UNCHANGED <<algorithms, Globals, Digesters>>

\* algorithmsMu.Lock() at the top of algorithmInfoRegister.
AlgorithmRegisterLock(t, name, enc, newFn) ==
    /\ pc[t] = "idle"
    /\ algorithmsMu.writer = 0 /\ algorithmsMu.readers = {}
    /\ algorithmsMu' = [algorithmsMu EXCEPT !.writer = t]
    /\ pc' = [pc EXCEPT ![t] = "reg"]
    /\ call' = [call EXCEPT ![t] = [NoCall EXCEPT !.op = "Register",
                   !.name = name, !.enc = enc, !.newFn = newFn]]
    /\ ret' = [ret EXCEPT ![t] = Pending]
    /\ UNCHANGED <<algorithms, Globals, Digesters>>

\* Variant of AlgorithmRegisterCheck that inserts the record of a new name
\* before the encoder and the hash function are checked.
AlgorithmRegisterCheckStoreFirst(t) ==
    /\ pc[t] = "reg"
    /\ LET err == algorithmInfoRegisterCheck(algorithms, call[t].name,
                                             call[t].enc, call[t].newFn)
       IN  IF err # NoError
           THEN /\ ret' = [ret EXCEPT ![t] =
                            Returned(ZeroInfo, ZeroAlgorithm, ZeroDigest, err)]
                /\ algorithmsMu' = [algorithmsMu EXCEPT !.writer = 0]
                /\ pc' = [pc EXCEPT ![t] = "idle"]
                /\ algorithms' =
                      IF err \in {ErrAlgorithmExists, ErrAlgorithmInvalidName}
                      THEN algorithms
                      ELSE algorithmInfoRegisterStore(algorithms, call[t].name,
                                                      call[t].enc, call[t].newFn)
           ELSE /\ pc' = [pc EXCEPT ![t] = "store"]
                /\ UNCHANGED <<ret, algorithmsMu, algorithms>>
    /\ UNCHANGED <<Globals, call, Digesters>>

\* The checks of algorithmInfoRegister: a failing check returns through the
\* deferred Unlock, otherwise the call goes on to the insertion.
AlgorithmRegisterCheck(t) ==
    /\ pc[t] = "reg"
    /\ LET err == algorithmInfoRegisterCheck(algorithms, call[t].name,
                                             call[t].enc, call[t].newFn)
       IN  IF err # NoError
           THEN /\ ret' = [ret EXCEPT ![t] =
                            Returned(ZeroInfo, ZeroAlgorithm, ZeroDigest, err)]
                /\ algorithmsMu' = [algorithmsMu EXCEPT !.writer = 0]
                /\ pc' = [pc EXCEPT ![t] = "idle"]
           ELSE /\ pc' = [pc EXCEPT ![t] = "store"]
                /\ UNCHANGED <<ret, algorithmsMu>>
    /\ UNCHANGED <<algorithms, Globals, call, Digesters>>

\* Variant of AlgorithmRegisterStore that publishes the entry of the name
\* before the record is filled in.
AlgorithmRegisterStorePartial(t) ==
    /\ pc[t] = "store"
    /\ algorithms' = [n \in DOMAIN algorithms \cup {call[t].name} |->
                        IF n = call[t].name
                        THEN [ZeroInfo EXCEPT !.name = call[t].name]
                        ELSE algorithms[n]]
    /\ ret' = [ret EXCEPT ![t] =
                Returned(algorithmInfoRecord(call[t].name, call[t].enc,
                                             call[t].newFn),
                         [name |-> call[t].name], ZeroDigest, NoError)]
    /\ algorithmsMu' = [algorithmsMu EXCEPT !.writer = 0]
    /\ pc' = [pc EXCEPT ![t] = "idle"]
    /\ UNCHANGED <<Globals, call, Digesters>>

\* The insertion into the map, the return and the deferred Unlock.
AlgorithmRegisterStore(t) ==
    /\ pc[t] = "store"
    /\ algorithms' = algorithmInfoRegisterStore(algorithms, call[t].name,
                                                call[t].enc, call[t].newFn)
    /\ ret' = [ret EXCEPT ![t] =
                Returned(algorithmInfoRecord(call[t].name, call[t].enc,
                                             call[t].newFn),
                         [name |-> call[t].name], ZeroDigest, NoError)]
    /\ algorithmsMu' = [algorithmsMu EXCEPT !.writer = 0]
    /\ pc' = [pc EXCEPT ![t] = "idle"]
    /\ UNCHANGED <<Globals, call, Digesters>>

\* -------------------------------------------------------- readers and writers
DigesterIds == 1..NumDigesters

\* The underlying io.Writer of a Writer: none, one that accepts every write (a
\* bytes.Buffer), or one that may accept any part of a buffer and may report
\* an error.
BufferSink == "buffer"
FaultySink == "faulty"

\* The underlying io.Reader of a Reader: none, one that hands out its bytes and
\* then EOF (a bytes.Reader), or one that may return any part of what it has
\* left together with any error.
NilSource == "nil"
BytesSource == "bytes"
FaultySource == "faulty"
NoData == [data |-> << >>, kind |-> NilSource, given |-> << >>]

ZeroReader == [r |-> NilSource, alg |-> ZeroAlgorithm, hash |-> NilHash]

Min(a, b) == IF a <= b THEN a ELSE b
Max(a, b) == IF a >= b THEN a ELSE b

\* algorithmInfoLookup as one step of a caller that can take the read lock.
algorithmInfoLookup(name) ==
    IF LockFree(name) THEN algorithmInfoLookupFast(name)
    ELSE algorithmInfoLookupLocked(algorithms, name)

\* What w.w.Write(p) can answer: the count and the error.
SinkAnswers(w, p) ==
    CASE w = BufferSink -> {[n |-> Len(p), err |-> NoCauses]}
      [] w = FaultySink ->
            {[n |-> k, err |-> e] : k \in (0 - 1)..Len(p),
                                    e \in {NoCauses, {ErrSink}}}
      [] OTHER -> {[n |-> 0, err |-> NoCauses]}

\* What r.r.Read(p) can answer for a buffer of length len when data is left.
SourceAnswers(r, data, len) ==
    CASE r = BytesSource ->
            IF data = << >> THEN {[n |-> 0, err |-> {EOF}]}
            ELSE {[n |-> Min(len, Len(data)), err |-> NoCauses]}
      [] r = FaultySource ->
            {[n |-> k, err |-> e] : k \in (0 - 1)..Min(len, Len(data)),
                                    e \in {NoCauses, {EOF}, {ErrSource}}}
      [] OTHER -> {[n |-> 0, err |-> NoCauses]}

\* Variant of JoinErr in which the error of the hash replaces the other one.
JoinErrHashOnly(err, hErr) == IF hErr # NoCauses THEN hErr ELSE err

\* The error Read and Write return after hash.Write returned hErr.
JoinErr(err, hErr) ==
    IF hErr # NoCauses
    THEN IF err # NoCauses THEN err \cup hErr ELSE hErr
    ELSE err

\* Variant of WriterWriteSink that hashes the whole buffer.
WriterWriteSinkWholeBuffer(w, p, ans) ==
    IF w.hash = NilHash
    THEN [hash |-> w.hash, n |-> 0, err |-> {ErrWriterInvalid}]
    ELSE LET n == IF w.w # NilSink THEN ans.n ELSE Len(p)
             err == IF w.w # NilSink THEN ans.err ELSE NoCauses
         IN  IF n <= 0 THEN [hash |-> w.hash, n |-> n, err |-> err]
             ELSE [hash |-> HashWrite(w.hash, p), n |-> n,
                   err |-> JoinErr(err, HashWriteErr(w.hash))]

\* Variant of WriterWriteSink that hashes only when there is no underlying
\* writer.
WriterWriteSinkNoTee(w, p, ans) ==
    IF w.hash = NilHash
    THEN [hash |-> w.hash, n |-> 0, err |-> {ErrWriterInvalid}]
    ELSE IF w.w # NilSink THEN [hash |-> w.hash, n |-> ans.n, err |-> ans.err]
    ELSE IF Len(p) <= 0 THEN [hash |-> w.hash, n |-> Len(p), err |-> NoCauses]
    ELSE [hash |-> HashWrite(w.hash, p), n |-> Len(p),
          err |-> JoinErr(NoCauses, HashWriteErr(w.hash))]

\* Writer.Write when the underlying writer, if there is one, answers ans: the
\* hash afterwards, the count and the error returned.
WriterWriteSink(w, p, ans) ==
    IF w.hash = NilHash
    THEN [hash |-> w.hash, n |-> 0, err |-> {ErrWriterInvalid}]
    ELSE LET n == IF w.w # NilSink THEN ans.n ELSE Len(p)
             err == IF w.w # NilSink THEN ans.err ELSE NoCauses
         IN  IF n <= 0 THEN [hash |-> w.hash, n |-> n, err |-> err]
             ELSE [hash |-> HashWrite(w.hash, SubSeq(p, 1, n)), n |-> n,
                   err |-> JoinErr(err, HashWriteErr(w.hash))]

\* Writer.Digest
WriterDigest(w) ==
    IF w.hash = NilHash THEN [d |-> ZeroDigest, err |-> ErrWriterInvalid]
    ELSE NewDigestFinish(w.alg, w.hash, algorithmInfoLookup(w.alg.name))

\* Writer.Verify
WriterVerify(w, cmp) ==
    IF WriterDigest(w).err # NoError THEN FALSE
    ELSE ~IsZero(cmp) /\ Equal(WriterDigest(w).d, cmp)

\* Algorithm.FromBytes as one step: Digester(), Write(p), Digest().
FromBytesResult(a, p) ==
    IF a.name = EmptyString
    THEN [d |-> ZeroDigest, err |-> ErrAlgorithmInvalidName]
    ELSE IF WriterWrite(NewWriter(NilSink, a), p).err # NoError
    THEN [d |-> ZeroDigest, err |-> WriterWrite(NewWriter(NilSink, a), p).err]
    ELSE WriterDigest(WriterWrite(NewWriter(NilSink, a), p).w)

NewReader(r, alg) ==
    IF alg.name = EmptyString \/ newFnOf(alg).kind = "nil"
    THEN [r |-> r, alg |-> Canonical, hash |-> NewHash(aiCanonical.newFn)]
    ELSE [r |-> r, alg |-> alg, hash |-> NewHash(newFnOf(alg))]

\* Variant of ReaderReadSource that returns the error of the source before it
\* hashes what was read.
ReaderReadSourceErrorFirst(r, p, ans) ==
    IF r.r = NilSource
    THEN [hash |-> r.hash, n |-> 0, err |-> {ErrReaderInvalid}]
    ELSE IF ans.n <= 0 \/ ans.err # NoCauses
    THEN [hash |-> r.hash, n |-> ans.n, err |-> ans.err]
    ELSE [hash |-> HashWrite(r.hash, SubSeq(p, 1, ans.n)), n |-> ans.n,
          err |-> JoinErr(ans.err, HashWriteErr(r.hash))]

\* Reader.Read when the source answers ans and has put its bytes into p.
ReaderReadSource(r, p, ans) ==
    IF r.r = NilSource
    THEN [hash |-> r.hash, n |-> 0, err |-> {ErrReaderInvalid}]
    ELSE IF ans.n <= 0 THEN [hash |-> r.hash, n |-> ans.n, err |-> ans.err]
    ELSE [hash |-> HashWrite(r.hash, SubSeq(p, 1, ans.n)), n |-> ans.n,
          err |-> JoinErr(ans.err, HashWriteErr(r.hash))]

\* Reader.ReadAll, io.Copy(r.hash, r.r), when the source hands out the bytes p
\* before it ends with EOF (srcErr empty) or with an error: the copy stops at
\* the first write the hash rejects.
ReaderReadAllSource(r, p, srcErr) ==
    IF r.r = NilSource THEN [hash |-> r.hash, err |-> {ErrReaderInvalid}]
    ELSE IF p = << >> THEN [hash |-> r.hash, err |-> srcErr]
    ELSE [hash |-> HashWrite(r.hash, p),
          err |-> IF HashWriteErr(r.hash) # NoCauses THEN HashWriteErr(r.hash)
                  ELSE srcErr]

\* Reader.Digest
ReaderDigest(r) ==
    IF r.hash = NilHash THEN [d |-> ZeroDigest, err |-> ErrReaderInvalid]
    ELSE NewDigestFinish(r.alg, r.hash, algorithmInfoLookup(r.alg.name))

\* Reader.Verify
ReaderVerify(r, cmp) ==
    IF ReaderDigest(r).err # NoError THEN FALSE
    ELSE ~IsZero(cmp) /\ Equal(ReaderDigest(r).d, cmp)

\* The record of a call on a Reader or Writer: its arguments, whether the
\* caller's previous call was Digest() on the same object, what the underlying
\* reader or writer answered (sn, serr) and what the call returned.
NoIO == [op |-> "none", kind |-> "none", id |-> 0, alg |-> ZeroAlgorithm,
         p |-> << >>, cmp |-> ZeroDigest, afterDigest |-> FALSE,
         sn |-> 0, serr |-> NoCauses,
         n |-> 0, err |-> NoCauses, d |-> ZeroDigest, ok |-> FALSE,
         enc |-> NilEncoder, s |-> EmptyString, b |-> NilBuf, text |-> NilBuf]

AfterDigest(kind, i) == io.op = "Digest" /\ io.kind = kind /\ io.id = i

Registry == <<algorithms, algorithmsMu, Globals, pc, call, ret>>

\* NewWriter(w, alg) into slot i, with a new, empty underlying writer.  The
\* caller holds Writers or a Reader, not both.
NewWriterCall(i, w, alg) ==
    /\ wr' = [wr EXCEPT ![i] = NewWriter(w, alg)]
    /\ sink' = [sink EXCEPT ![i] = << >>]
    /\ rd' = ZeroReader
    /\ source' = NoData
    /\ io' = [NoIO EXCEPT !.op = "NewWriter", !.kind = "Writer", !.id = i,
                          !.alg = alg]
    /\ UNCHANGED <<Registry, digest>>

\* Variant of AlgorithmDigester that hands out the accumulator of the other
\* Digester.
AlgorithmDigesterShared(i, alg) ==
    /\ IF alg.name = EmptyString
       THEN /\ io' = [NoIO EXCEPT !.op = "Digester", !.kind = "Writer",
                         !.id = i, !.alg = alg,
                         !.err = {ErrAlgorithmInvalidName}]
            /\ UNCHANGED <<wr, sink>>
       ELSE /\ wr' = [wr EXCEPT ![i] =
                        [NewWriter(NilSink, alg) EXCEPT
                            !.hash = IF \E j \in DigesterIds \ {i} :
                                           wr[j].hash.id = @.id
                                     THEN wr[CHOOSE j \in DigesterIds \ {i} :
                                                wr[j].hash.id = @.id].hash
                                     ELSE @]]
            /\ sink' = [sink EXCEPT ![i] = << >>]
            /\ io' = [NoIO EXCEPT !.op = "Digester", !.kind = "Writer",
                         !.id = i, !.alg = alg]
    /\ rd' = ZeroReader
    /\ source' = NoData
    /\ UNCHANGED <<Registry, digest>>

\* Algorithm.Digester() into slot i.
AlgorithmDigester(i, alg) ==
    /\ IF alg.name = EmptyString
       THEN /\ io' = [NoIO EXCEPT !.op = "Digester", !.kind = "Writer",
                         !.id = i, !.alg = alg,
                         !.err = {ErrAlgorithmInvalidName}]
            /\ UNCHANGED <<wr, sink>>
       ELSE /\ wr' = [wr EXCEPT ![i] = NewWriter(NilSink, alg)]
            /\ sink' = [sink EXCEPT ![i] = << >>]
            /\ io' = [NoIO EXCEPT !.op = "Digester", !.kind = "Writer",
                         !.id = i, !.alg = alg]
    /\ rd' = ZeroReader
    /\ source' = NoData
    /\ UNCHANGED <<Registry, digest>>

\* Writer.Write(p) on slot i.
WriterWriteCall(i, p) ==
    /\ Len(wr[i].hash.data) + Len(p) <= MaxWritten
    /\ \E ans \in SinkAnswers(wr[i].w, p) :
          LET res == WriterWriteSink(wr[i], p, ans)
          IN  /\ wr' = [wr EXCEPT ![i].hash = res.hash]
              /\ sink' = [sink EXCEPT ![i] =
                            IF wr[i].hash # NilHash /\ wr[i].w # NilSink
                            THEN @ \o SubSeq(p, 1, Max(ans.n, 0)) ELSE @]
              /\ io' = [NoIO EXCEPT !.op = "Write", !.kind = "Writer",
                           !.id = i, !.p = p,
                           !.afterDigest = AfterDigest("Writer", i),
                           !.sn = ans.n, !.serr = ans.err,
                           !.n = res.n, !.err = res.err]
    /\ UNCHANGED <<rd, source, Registry, digest>>

\* Variant of WriterDigestCall after which the Writer is closed.
WriterDigestCallClosing(i) ==
    /\ algorithmsMu.writer = 0
    /\ io' = [NoIO EXCEPT !.op = "Digest", !.kind = "Writer", !.id = i,
                 !.d = WriterDigest(wr[i]).d,
                 !.err = Causes(WriterDigest(wr[i]).err)]
    /\ wr' = [wr EXCEPT ![i].hash = NilHash]
    /\ UNCHANGED <<sink, rd, source, Registry, digest>>

\* Writer.Digest() on slot i.
WriterDigestCall(i) ==
    /\ algorithmsMu.writer = 0
    /\ io' = [NoIO EXCEPT !.op = "Digest", !.kind = "Writer", !.id = i,
                 !.d = WriterDigest(wr[i]).d,
                 !.err = Causes(WriterDigest(wr[i]).err)]
    /\ UNCHANGED <<wr, sink, rd, source, Registry, digest>>

\* Writer.Verify(cmp) on slot i.
WriterVerifyCall(i, cmp) ==
    /\ algorithmsMu.writer = 0
    /\ io' = [NoIO EXCEPT !.op = "Verify", !.kind = "Writer", !.id = i,
                 !.cmp = cmp, !.ok = WriterVerify(wr[i], cmp)]
    /\ UNCHANGED <<wr, sink, rd, source, Registry, digest>>

\* NewReader(r, alg) over a new source that holds data.
NewReaderCall(r, alg, data) ==
    /\ rd' = NewReader(r, alg)
    /\ source' = [data |-> IF r = NilSource THEN << >> ELSE data, kind |-> r,
                  given |-> << >>]
    /\ wr' = [i \in DigesterIds |-> ZeroWriter]
    /\ sink' = [i \in DigesterIds |-> << >>]
    /\ io' = [NoIO EXCEPT !.op = "NewReader", !.kind = "Reader", !.alg = alg]
    /\ UNCHANGED <<Registry, digest>>

\* Reader.Read(p) with a buffer of length len: the bytes read are io.p.
ReaderReadCall(len) ==
    /\ \E ans \in SourceAnswers(rd.r, source.data, len) :
          LET p == SubSeq(source.data, 1, Max(ans.n, 0))
              res == ReaderReadSource(rd, p, ans)
          IN  /\ rd' = [rd EXCEPT !.hash = res.hash]
              /\ source' = [source EXCEPT
                              !.data = IF rd.r # NilSource
                                       THEN SubSeq(@, Max(ans.n, 0) + 1, Len(@))
                                       ELSE @,
                              !.given = IF rd.r # NilSource THEN @ \o p ELSE @]
              /\ io' = [NoIO EXCEPT !.op = "Read", !.kind = "Reader",
                           !.p = IF rd.r # NilSource THEN p ELSE << >>,
                           !.afterDigest = AfterDigest("Reader", 0),
                           !.sn = ans.n, !.serr = ans.err,
                           !.n = res.n, !.err = res.err]
    /\ UNCHANGED <<wr, sink, Registry, digest>>

\* Reader.ReadAll(): a bytes.Reader hands out everything and ends with EOF,
\* another source may end earlier and with an error.
ReaderReadAllCall ==
    /\ \E k \in 0..Len(source.data), srcErr \in {NoCauses, {ErrSource}} :
          /\ rd.r = BytesSource => k = Len(source.data) /\ srcErr = NoCauses
          /\ rd.r = NilSource => k = 0 /\ srcErr = NoCauses
          /\ LET p == SubSeq(source.data, 1, k)
                 res == ReaderReadAllSource(rd, p, srcErr)
             IN  /\ rd' = [rd EXCEPT !.hash = res.hash]
                 /\ source' = [source EXCEPT !.data = SubSeq(@, k + 1, Len(@)),
                                              !.given = @ \o p]
                 /\ io' = [NoIO EXCEPT !.op = "ReadAll", !.kind = "Reader",
                              !.p = p, !.serr = srcErr, !.err = res.err]
    /\ UNCHANGED <<wr, sink, Registry, digest>>

\* Reader.Digest()
ReaderDigestCall ==
    /\ algorithmsMu.writer = 0
    /\ io' = [NoIO EXCEPT !.op = "Digest", !.kind = "Reader",
                 !.d = ReaderDigest(rd).d,
                 !.err = Causes(ReaderDigest(rd).err)]
    /\ UNCHANGED <<wr, sink, rd, source, Registry, digest>>

\* Reader.Verify(cmp)
ReaderVerifyCall(cmp) ==
    /\ algorithmsMu.writer = 0
    /\ io' = [NoIO EXCEPT !.op = "Verify", !.kind = "Reader", !.cmp = cmp,
                 !.ok = ReaderVerify(rd, cmp)]
    /\ UNCHANGED <<wr, sink, rd, source, Registry, digest>>

\* ------------------------------------------------ FromReader and FromString
\* []byte(s): the UTF-8 bytes of the characters of s.
Utf8Bytes(c) ==
    CASE c = "a" -> <<97>>
      [] c = "f" -> <<102>>
      [] c = EAcute -> <<195, 169>>
      [] c = EuroSign -> <<226, 130, 172>>
      [] OTHER -> <<63>>

RECURSIVE BytesOfString(_)
BytesOfString(s) ==
    IF s = << >> THEN << >> ELSE Utf8Bytes(Head(s)) \o BytesOfString(Tail(s))

\* Algorithm.FromString
FromStringResult(a, s) == FromBytesResult(a, BytesOfString(s))

\* a.FromBytes(p) and a.FromString(s) as calls of the caller.
FromBytesCall(a, p) ==
    /\ algorithmsMu.writer = 0
    /\ io' = [NoIO EXCEPT !.op = "FromBytes", !.kind = "Algorithm", !.alg = a,
                          !.p = p, !.d = FromBytesResult(a, p).d,
                          !.err = Causes(FromBytesResult(a, p).err)]
    /\ UNCHANGED <<wr, sink, rd, source, Registry, digest>>

FromStringCall(a, s) ==
    /\ algorithmsMu.writer = 0
    /\ io' = [NoIO EXCEPT !.op = "FromString", !.kind = "Algorithm", !.alg = a,
                          !.s = s, !.d = FromStringResult(a, s).d,
                          !.err = Causes(FromStringResult(a, s).err)]
    /\ UNCHANGED <<wr, sink, rd, source, Registry, digest>>

\* FromReader is inside io.Copy(dr, rd): dr is the Writer in slot 1.
InCopy == io.op = "io.Copy"

\* a.FromReader(rd) up to the call of io.Copy, over a new source that holds
\* data: the zero Algorithm fails in Digester() and the source is not touched.
FromReaderCall(a, r, data) ==
    /\ source' = [data |-> data, kind |-> r, given |-> << >>]
    /\ rd' = ZeroReader
    /\ sink' = [i \in DigesterIds |-> << >>]
    /\ IF a.name = EmptyString
       THEN /\ wr' = [i \in DigesterIds |-> ZeroWriter]
            /\ io' = [NoIO EXCEPT !.op = "FromReader", !.kind = "Algorithm",
                                  !.alg = a, !.err = {ErrAlgorithmInvalidName}]
       ELSE /\ wr' = [i \in DigesterIds |->
                        IF i = 1 THEN NewWriter(NilSink, a) ELSE ZeroWriter]
            /\ io' = [NoIO EXCEPT !.op = "io.Copy", !.kind = "Algorithm",
                                  !.alg = a]
    /\ UNCHANGED <<Registry, digest>>

\* Variant of FromReaderReturn that returns the digest of what was copied
\* whatever the error of io.Copy was.
FromReaderReturnDigestAnyway(w, copyErr) ==
    [err |-> Causes(WriterDigest(w).err), d |-> WriterDigest(w).d]

\* What FromReader returns once io.Copy returned copyErr and left dr as w.
FromReaderReturn(w, copyErr) ==
    IF copyErr # NoCauses THEN [err |-> copyErr, d |-> ZeroDigest]
    ELSE [err |-> Causes(WriterDigest(w).err), d |-> WriterDigest(w).d]

\* One round of the loop of io.Copy: the source answers a Read into a buffer
\* that is larger than what it holds, the bytes read are written to dr, and
\* the loop ends on an error of the write or of the read; EOF ends it without
\* an error.  When it ends FromReader returns and dr is gone.
CopyStep ==
    /\ InCopy
    /\ algorithmsMu.writer = 0
    /\ \E ans \in SourceAnswers(source.kind, source.data, Len(source.data)) :
          LET p == SubSeq(source.data, 1, Max(ans.n, 0))
              res == IF ans.n > 0
                     THEN WriterWriteSink(wr[1], p, [n |-> 0, err |-> NoCauses])
                     ELSE [hash |-> wr[1].hash, n |-> 0, err |-> NoCauses]
              w == [wr[1] EXCEPT !.hash = res.hash]
              copyErr == IF res.err # NoCauses THEN res.err
                         ELSE IF ans.err = {EOF} THEN NoCauses
                         ELSE ans.err
          IN  /\ source' = [source EXCEPT
                              !.data = SubSeq(@, Max(ans.n, 0) + 1, Len(@)),
                              !.given = @ \o p]
              /\ IF res.err = NoCauses /\ ans.err = NoCauses
                 THEN /\ wr' = [wr EXCEPT ![1] = w]
                      /\ io' = [io EXCEPT !.p = p, !.sn = ans.n]
                 ELSE /\ wr' = [wr EXCEPT ![1] = ZeroWriter]
                      /\ io' = [NoIO EXCEPT
                                  !.op = "FromReader", !.kind = "Algorithm",
                                  !.alg = io.alg, !.p = p, !.sn = ans.n,
                                  !.serr = ans.err,
                                  !.err = FromReaderReturn(w, copyErr).err,
                                  !.d = FromReaderReturn(w, copyErr).d]
    /\ UNCHANGED <<sink, rd, Registry, digest>>

\* ------------------------------------------------------- encoder calls
\* EncodeHex{Len}.Encode(p) and EncodeHex{Len}.Validate(s) called directly.
EncodeCall(e, p) ==
    /\ io' = [NoIO EXCEPT !.op = "Encode", !.kind = "Encoder", !.enc = e,
                          !.p = p, !.text = Buf(EncodeHexEncode(e, p).text),
                          !.err = Causes(EncodeHexEncode(e, p).err)]
    /\ UNCHANGED <<wr, sink, rd, source, Registry, digest>>

ValidateCall(e, s) ==
    /\ io' = [NoIO EXCEPT !.op = "Validate", !.kind = "Encoder", !.enc = e,
                          !.s = s, !.ok = EncodeHexValidate(e, s)]
    /\ UNCHANGED <<wr, sink, rd, source, Registry, digest>>

\* ---------------------------------------------------------- digest text
\* Variant of AppendText without the test for a half-empty Digest.
AppendTextNoHalfCheck(d, b) ==
    IF IsZero(d)
    THEN [text |-> IF b.nil THEN Buf(<< >>) ELSE b, err |-> NoError]
    ELSE [text |-> Buf(b.data \o d.alg \o <<":">> \o d.enc), err |-> NoError]

\* Digest.AppendText(b): fmt.Appendf(b, "%s:%s", d.alg, d.enc).
AppendText(d, b) ==
    IF IsZero(d)
    THEN [text |-> IF b.nil THEN Buf(<< >>) ELSE b, err |-> NoError]
    ELSE IF d.alg = EmptyString \/ d.enc = EmptyString
    THEN [text |-> b, err |-> ErrDigestInvalid]
    ELSE [text |-> Buf(b.data \o d.alg \o <<":">> \o d.enc), err |-> NoError]

\* Digest.MarshalText
MarshalText(d) == AppendText(d, NilBuf)

\* Variant of ParseResult without the early return for the empty string.
ParseResultNoEmpty(s) ==
    IF ~Cut(s).found THEN [d |-> ZeroDigest, err |-> ErrDigestInvalid]
    ELSE ParseFinish(s, algorithmInfoLookup(Cut(s).before))

\* Parse(s) as one step of a caller that can take the read lock.
ParseResult(s) ==
    IF s = EmptyString THEN [d |-> ZeroDigest, err |-> NoError]
    ELSE IF ~Cut(s).found THEN [d |-> ZeroDigest, err |-> ErrDigestInvalid]
    ELSE ParseFinish(s, algorithmInfoLookup(Cut(s).before))

\* string(text): a nil and an empty slice both convert to the empty string.
StringOfText(text) == IF text.nil THEN EmptyString ELSE text.data

\* A Digest value written as a composite literal inside the package.
DigestLiteral(d) ==
    /\ digest' = d
    /\ io' = [NoIO EXCEPT !.op = "Literal", !.kind = "Digest", !.d = d]
    /\ UNCHANGED <<wr, sink, rd, source, Registry>>

ParseCall(s) ==
    /\ algorithmsMu.writer = 0
    /\ io' = [NoIO EXCEPT !.op = "Parse", !.kind = "Digest", !.s = s,
                          !.d = ParseResult(s).d,
                          !.err = Causes(ParseResult(s).err)]
    /\ UNCHANGED <<wr, sink, rd, source, Registry, digest>>

\* Variant of UnmarshalTextCall that assigns the result of Parse to the
\* receiver before it looks at the error.
UnmarshalTextCallAssignFirst(text) ==
    /\ algorithmsMu.writer = 0
    /\ digest' = ParseResult(StringOfText(text)).d
    /\ io' = [NoIO EXCEPT !.op = "UnmarshalText", !.kind = "Digest",
                          !.b = text, !.cmp = digest, !.d = digest',
                          !.err = Causes(ParseResult(StringOfText(text)).err)]
    /\ UNCHANGED <<wr, sink, rd, source, Registry>>

\* d.UnmarshalText(text) on the Digest the caller holds.
UnmarshalTextCall(text) ==
    /\ algorithmsMu.writer = 0
    /\ digest' = IF ParseResult(StringOfText(text)).err # NoError THEN digest
                 ELSE ParseResult(StringOfText(text)).d
    /\ io' = [NoIO EXCEPT !.op = "UnmarshalText", !.kind = "Digest",
                          !.b = text, !.cmp = digest, !.d = digest',
                          !.err = Causes(ParseResult(StringOfText(text)).err)]
    /\ UNCHANGED <<wr, sink, rd, source, Registry>>

\* d.AppendText(b) and d.MarshalText() on the Digest the caller holds.
AppendTextCall(b) ==
    /\ io' = [NoIO EXCEPT !.op = "AppendText", !.kind = "Digest", !.b = b,
                          !.d = digest, !.text = AppendText(digest, b).text,
                          !.err = Causes(AppendText(digest, b).err)]
    /\ UNCHANGED <<wr, sink, rd, source, Registry, digest>>

MarshalTextCall ==
    /\ io' = [NoIO EXCEPT !.op = "MarshalText", !.kind = "Digest",
                          !.d = digest, !.text = MarshalText(digest).text,
                          !.err = Causes(MarshalText(digest).err)]
    /\ UNCHANGED <<wr, sink, rd, source, Registry, digest>>

\* Algorithm.Size and Algorithm.Encode: both go through algorithmInfoLookup;
\* Size ignores its error and reports the size of the zero record.
AlgorithmSize(a) == algorithmInfoLookup(a.name).ai.size

AlgorithmEncode(a, p) ==
    IF algorithmInfoLookup(a.name).err # NoError
    THEN [text |-> EmptyString, err |-> algorithmInfoLookup(a.name).err]
    ELSE Encode(algorithmInfoLookup(a.name).ai.enc, p)

\* a.Encode(p), with a.Size() recorded next to it.
AlgorithmEncodeCall(a, p) ==
    /\ algorithmsMu.writer = 0
    /\ io' = [NoIO EXCEPT !.op = "Encode", !.kind = "Algorithm", !.alg = a,
                          !.p = p, !.n = AlgorithmSize(a),
                          !.text = Buf(AlgorithmEncode(a, p).text),
                          !.err = Causes(AlgorithmEncode(a, p).err)]
    /\ UNCHANGED <<wr, sink, rd, source, Registry, digest>>

\* --------------------------------------------------------------------- init
\* The state after the package's init(): both built-ins registered in order.
InitSHA256 == algorithmInfoRegister(NoAlgorithms, sha256Name,
                                    EncodeHex(SHA256HexLen), sha256New)
InitSHA512 == algorithmInfoRegister(InitSHA256.algs, sha512Name,
                                    EncodeHex(SHA512HexLen), sha512New)

Init ==
    /\ algorithms = InitSHA512.algs
    /\ algorithmsMu = [writer |-> 0, readers |-> {}]
    /\ aiSHA256 = InitSHA256.ai
    /\ SHA256 = InitSHA256.alg
    /\ aiSHA512 = InitSHA512.ai
    /\ SHA512 = InitSHA512.alg
    /\ Canonical = InitSHA256.alg
    /\ aiCanonical = InitSHA256.ai
    /\ pc = [t \in Threads |-> "idle"]
    /\ call = [t \in Threads |-> NoCall]
    /\ ret = [t \in Threads |-> Pending]
    /\ wr = [i \in DigesterIds |-> ZeroWriter]
    /\ sink = [i \in DigesterIds |-> << >>]
    /\ rd = ZeroReader
    /\ source = NoData
    /\ io = NoIO
    /\ digest = ZeroDigest

\* ------------------------------------------------------------------- inputs
RECURSIVE SeqsUpTo(_, _)
SeqsUpTo(S, n) ==
    IF n <= 0 THEN {<< >>}
    ELSE SeqsUpTo(S, n - 1)
         \cup {Append(q, x) : q \in {r \in SeqsUpTo(S, n - 1) : Len(r) = n - 1},
                              x \in S}

RECURSIVE Repeat(_, _)
Repeat(c, n) == IF n <= 0 THEN EmptyString ELSE <<c>> \o Repeat(c, n - 1)

\* Arguments of AlgorithmRegister: valid, registered and malformed names, the
\* nil encoder and hex encoders, nil and misbehaving hash factories.
RegisterNames == {EmptyString, sha256Name, sha512Name, <<"a">>,
                  <<"a", "-", "b">>, <<"A">>, <<"a", "*">>, <<"a", "-">>,
                  <<"a", ".", "_", "b">>}
Encoders == {NilEncoder, EncodeHex(0), EncodeHex(2)}
Factories == {NilFactory, NilReturnFactory, HashFactory("h0", 0),
              HashFactory("hneg", -1), HashFactory("h1", 1),
              HashFactory("h2", 2)}
LookupNames == RegisterNames \cup {<<"b">>}

\* Digest strings: an algorithm part, a colon and an encoded part over a hex
\* digit, an upper-case letter and a colon, with a character outside the
\* grammar in one full-length part; also strings without a colon.
EncAlphabet == {"a", "F", ":"}
EncParts == SeqsUpTo(EncAlphabet, MaxEncLen)
            \cup {Repeat("a", SHA256HexLen), Repeat("a", SHA256HexLen + 4),
                  Repeat("a", SHA256HexLen - 1) \o <<"*">>}
AlgParts == {EmptyString, sha256Name, <<"a">>, <<"a", "*">>}
ParseInputs == EncParts \cup AlgParts
               \cup {a \o <<":">> \o e : a \in AlgParts, e \in EncParts}

ByteValues == {0, 171}
ByteSeqs == SeqsUpTo(ByteValues, MaxDataLen)

\* The handles a caller can hold: the zero value and what Register or Lookup
\* have returned.
Handles == {ZeroAlgorithm} \cup {[name |-> n] : n \in DOMAIN algorithms}

Hashes == {NilHash}
          \cup {HashWrite(NewHash(f), p) :
                  f \in {sha256New, sha512New, HashFactory("h1", 1),
                         HashFactory("h2", 2)},
                  p \in ByteSeqs}

\* ------------------------------------------------------------ specification
\* One caller that registers algorithms and builds and parses digests.
DigestNames == {<<"a">>, sha256Name}
DigestEncoders == {EncodeHex(0), EncodeHex(2)}
DigestFactories == {HashFactory("h1", 1), HashFactory("h2", 2)}

Step(t) ==
    \/ \E name \in DigestNames, enc \in DigestEncoders,
          newFn \in DigestFactories :
          AlgorithmRegisterLock(t, name, enc, newFn)
    \/ AlgorithmRegisterCheck(t)
    \/ AlgorithmRegisterStore(t)
    \/ algorithmInfoLookupReturn(t)
    \/ \E s \in ParseInputs : Parse(t, s)
    \/ ParseString(t)
    \/ \E alg \in Handles, h \in Hashes : NewDigest(t, alg, h)
    \/ \E alg \in Handles, e \in EncParts : NewDigestFromEncoded(t, alg, e)
    \/ \E a \in Handles, p \in ByteSeqs : FromBytes(t, a, p)

Next == Step(1)

Spec == Init /\ [][Next]_vars

\* One caller of the registry, with every kind of argument.
RegStep(t) ==
    \/ \E name \in RegisterNames, enc \in Encoders, newFn \in Factories :
          AlgorithmRegisterLock(t, name, enc, newFn)
    \/ AlgorithmRegisterCheck(t)
    \/ AlgorithmRegisterStore(t)
    \/ \E name \in LookupNames : AlgorithmLookup(t, name)
    \/ algorithmInfoLookupReturn(t)

NextReg == RegStep(1)

SpecReg == Init /\ [][NextReg]_vars

\* Several callers registering and looking up concurrently.
ConcNames == {<<"a">>, sha256Name, <<"b">>}

ConcStep(t) ==
    \/ \E name \in ConcNames, newFn \in DigestFactories :
          AlgorithmRegisterLock(t, name, EncodeHex(2), newFn)
    \/ AlgorithmRegisterCheck(t)
    \/ AlgorithmRegisterStore(t)
    \/ \E name \in ConcNames : AlgorithmLookup(t, name)
    \/ algorithmInfoLookupReturn(t)

NextConc == \E t \in Threads : ConcStep(t)

SpecConc == Init /\ [][NextConc]_vars

\* One caller with one Writer or one Reader over every kind of underlying
\* writer and source, bound to a built-in algorithm or to a registered one
\* whose encoder fits its hash or does not.  The caller registers algorithms
\* before it makes its first Reader or Writer.
InvalidAlgorithm == [name |-> <<"b">>]
IOHandles ==
    {ZeroAlgorithm, SHA256, InvalidAlgorithm}
    \cup {[name |-> n] : n \in DOMAIN algorithms \ {sha256Name, sha512Name}}
Sinks == {NilSink, BufferSink, FaultySink}
Sources == {BytesSource, FaultySource}
RECURSIVE Alternate(_)
Alternate(n) ==
    IF n <= 0 THEN << >>
    ELSE Append(Alternate(n - 1), IF n % 2 = 1 THEN 0 ELSE 171)
\* What a source holds and what a caller writes at once: the prefixes of
\* 0, 171, 0, ...; written one after the other they make up other contents.
SourceData == {Alternate(k) : k \in 0..MaxWritten}
BufferLens == 0..MaxWritten
WriteChunks == {Alternate(k) : k \in 0..MaxWritten}

\* The digest of hash h under algorithm alg, the zero Digest if there is none.
DigestOf(alg, h) == NewDigestFinish(alg, h, algorithmInfoLookup(alg.name)).d

\* The digests of the empty input under the built-in algorithms.
EmptySHA256 ==
    [alg |-> sha256Name,
     enc |-> Encode(EncodeHex(SHA256HexLen), HashSum(NewHash(sha256New))).text]
EmptySHA512 ==
    [alg |-> sha512Name,
     enc |-> Encode(EncodeHex(SHA512HexLen), HashSum(NewHash(sha512New))).text]

\* Digests to verify against: the zero Digest, the current one, the digest of
\* the same algorithm over other bytes, a digest of another algorithm.
VerifyCandidates(alg, h) ==
    {ZeroDigest, DigestOf(alg, h), DigestOf(alg, HashWrite(h, <<0>>)),
     IF alg.name = sha256Name THEN EmptySHA512 ELSE EmptySHA256}

IOStep(t) ==
    \/ /\ io = NoIO
       /\ \E newFn \in DigestFactories :
             AlgorithmRegisterLock(t, <<"a">>, EncodeHex(2), newFn)
    \/ AlgorithmRegisterCheck(t)
    \/ AlgorithmRegisterStore(t)
    \/ /\ pc[t] = "idle"
       /\ \/ \E w \in Sinks, alg \in IOHandles : NewWriterCall(1, w, alg)
          \/ \E p \in WriteChunks : WriterWriteCall(1, p)
          \/ WriterDigestCall(1)
          \/ \E cmp \in VerifyCandidates(wr[1].alg, wr[1].hash) :
                WriterVerifyCall(1, cmp)
          \/ \E alg \in IOHandles : NewReaderCall(NilSource, alg, << >>)
          \/ \E r \in Sources, alg \in IOHandles, data \in SourceData :
                NewReaderCall(r, alg, data)
          \/ \E len \in BufferLens : ReaderReadCall(len)
          \/ ReaderReadAllCall
          \/ ReaderDigestCall
          \/ \E cmp \in VerifyCandidates(rd.alg, rd.hash) :
                ReaderVerifyCall(cmp)

NextIO == IOStep(1)

SpecIO == Init /\ [][NextIO]_vars

\* One caller with a Reader or Writer whose hash rejects every write.
RejectingName == <<"f">>
FaultHandles == {SHA256} \cup {[name |-> n] : n \in DOMAIN algorithms \cap {RejectingName}}

FaultStep(t) ==
    \/ /\ io = NoIO
       /\ AlgorithmRegisterLock(t, RejectingName, EncodeHex(2),
                                RejectingFactory("hr", 1))
    \/ AlgorithmRegisterCheck(t)
    \/ AlgorithmRegisterStore(t)
    \/ /\ pc[t] = "idle"
       /\ \/ \E w \in Sinks, alg \in FaultHandles : NewWriterCall(1, w, alg)
          \/ \E p \in WriteChunks : WriterWriteCall(1, p)
          \/ \E r \in Sources, alg \in FaultHandles, data \in SourceData :
                NewReaderCall(r, alg, data)
          \/ \E len \in BufferLens : ReaderReadCall(len)
          \/ ReaderReadAllCall

NextFault == FaultStep(1)

SpecFault == Init /\ [][NextFault]_vars

\* One caller with several Digesters of one registered algorithm.
DigesterHandles ==
    {ZeroAlgorithm}
    \cup {[name |-> n] : n \in DOMAIN algorithms \ {sha256Name, sha512Name}}

DigesterStep(t) ==
    \/ /\ io = NoIO
       /\ AlgorithmRegisterLock(t, <<"a">>, EncodeHex(2), HashFactory("h1", 1))
    \/ AlgorithmRegisterCheck(t)
    \/ AlgorithmRegisterStore(t)
    \/ /\ pc[t] = "idle"
       /\ \/ \E i \in DigesterIds, alg \in DigesterHandles :
                AlgorithmDigester(i, alg)
          \/ \E i \in DigesterIds, p \in WriteChunks : WriterWriteCall(i, p)
          \/ \E i \in DigesterIds : WriterDigestCall(i)

NextDigester == DigesterStep(1)

SpecDigester == Init /\ [][NextDigester]_vars

\* The encoder on its own, one call on one input: every length an EncodeHex
\* can be built with, byte slices of all three nibble shapes, strings with
\* lower-case and upper-case hex digits, other letters, a space and characters
\* of two and three bytes.
EncLens == (0 - 1)..(2 * MaxDataLen + 2)
EncBytes == SeqsUpTo({0, 10, 171}, MaxDataLen + 1)
ValidateAlphabet == {"0", "9", "a", "f", "F", "g", " ", EAcute, EuroSign}
ValidateStrings == SeqsUpTo(ValidateAlphabet, MaxEncLen)

NextEnc ==
    /\ io = NoIO
    /\ \/ \E n \in EncLens, p \in EncBytes : EncodeCall(EncodeHex(n), p)
       \/ \E n \in EncLens, s \in ValidateStrings :
             ValidateCall(EncodeHex(n), s)

SpecEnc == Init /\ [][NextEnc]_vars

\* One caller that holds a Digest and converts it from and to text while the
\* algorithm "a" is registered with an encoder of no or of two characters.
TextAlgParts == {EmptyString, <<"a">>, <<"b">>}
TextEncParts == SeqsUpTo({"a", "F"}, MaxEncLen)
TextStrings == {EmptyString, <<"a">>}
               \cup {a \o <<":">> \o e : a \in TextAlgParts, e \in TextEncParts}
Texts == {NilBuf} \cup {Buf(s) : s \in TextStrings}
AppendBuffers == {NilBuf, Buf(<< >>), Buf(<<"x">>)}
DigestLiterals == {[enc |-> e, alg |-> a] : e \in {EmptyString, <<"a", "a">>},
                                          a \in {EmptyString, <<"a">>}}

TextHandles == {ZeroAlgorithm, SHA256}
               \cup {[name |-> n] : n \in DOMAIN algorithms \cap {<<"a">>}}

TextStep(t) ==
    \/ /\ io = NoIO
       /\ \E enc \in DigestEncoders :
             AlgorithmRegisterLock(t, <<"a">>, enc, HashFactory("h1", 1))
    \/ AlgorithmRegisterCheck(t)
    \/ AlgorithmRegisterStore(t)
    \/ /\ pc[t] = "idle"
       /\ \/ \E d \in DigestLiterals : DigestLiteral(d)
          \/ \E s \in TextStrings : ParseCall(s)
          \/ \E text \in Texts : UnmarshalTextCall(text)
          \/ \E b \in AppendBuffers : AppendTextCall(b)
          \/ MarshalTextCall
          \/ \E a \in TextHandles, p \in EncBytes : AlgorithmEncodeCall(a, p)

NextText == TextStep(1)

SpecText == Init /\ [][NextText]_vars

\* One caller that computes digests in every way the package offers:
\* FromBytes, FromString, FromReader, a Digester fed by Write, a Reader read
\* by Read or by ReadAll.  The algorithm "a" is registered with a hash that
\* fits its encoder or does not; FromBytes and FromString are called while
\* the caller holds no Reader and no Digester.
FromHandles == {ZeroAlgorithm}
               \cup {[name |-> n] : n \in DOMAIN algorithms \cap {<<"a">>}}
HoldsNothing == rd = ZeroReader /\ \A i \in DigesterIds : wr[i] = ZeroWriter
FromStrings == SeqsUpTo({"a", EAcute}, MaxDataLen)

FromStep(t) ==
    \/ /\ io = NoIO
       /\ \E newFn \in DigestFactories :
             AlgorithmRegisterLock(t, <<"a">>, EncodeHex(2), newFn)
    \/ AlgorithmRegisterCheck(t)
    \/ AlgorithmRegisterStore(t)
    \/ /\ pc[t] = "idle"
       /\ CopyStep
    \/ /\ pc[t] = "idle"
       /\ ~InCopy
       /\ \/ \E a \in FromHandles, r \in Sources, data \in SourceData :
                FromReaderCall(a, r, data)
          \/ /\ HoldsNothing
             /\ \/ \E a \in FromHandles, p \in SourceData : FromBytesCall(a, p)
                \/ \E a \in FromHandles, s \in FromStrings :
                      FromStringCall(a, s)
          \/ \E a \in FromHandles : AlgorithmDigester(1, a)
          \/ \E p \in WriteChunks : WriterWriteCall(1, p)
          \/ \E r \in Sources, a \in FromHandles, data \in SourceData :
                NewReaderCall(r, a, data)
          \/ \E len \in BufferLens : ReaderReadCall(len)
          \/ ReaderReadAllCall

NextFrom == FromStep(1)

SpecFrom == Init /\ [][NextFrom]_vars

TypeOK ==
    /\ \A t \in Threads : pc[t] \in {"idle", "reg", "store", "rlocked"}
    /\ algorithmsMu.writer \in {0} \cup Threads
    /\ algorithmsMu.readers \subseteq Threads

\* ------------------------------------------------------------------- claims
Done(t, op) == ret[t].done /\ call[t].op = op
DigestOps == {"Parse", "NewDigest", "NewDigestFromEncoded", "FromBytes"}
Registered(name) == name \in DOMAIN algorithms

\* C1: every Digest returned without error by Parse, NewDigest,
\* NewDigestFromEncoded or a writer's Digest() is the zero value or has a
\* non-empty registered algorithm name and a non-empty encoded value that the
\* algorithm's encoder validates; exactly one empty field never occurs.
C1_DigestNeverHalfEmpty ==
    \A t \in Threads :
        (ret[t].done /\ call[t].op \in DigestOps /\ ret[t].err = NoError) =>
            \/ IsZero(ret[t].d)
            \/ /\ ret[t].d.alg # EmptyString
               /\ ret[t].d.enc # EmptyString
               /\ Registered(ret[t].d.alg)
               /\ Validate(algorithms[ret[t].d.alg].enc, ret[t].d.enc)

\* C2 as stated: every non-empty input that does not match the digest grammar
\* makes Parse fail with DigestInvalid.
C2_MismatchIsDigestInvalid ==
    \A t \in Threads :
        (Done(t, "Parse") /\ call[t].s # EmptyString
                          /\ ~DigestRegexpPartsMatch(call[t].s)) =>
            ret[t].err = ErrDigestInvalid

\* C2 amended: for a non-empty input that does not match the grammar, Parse
\* returns DigestInvalid exactly when the input has no colon; with a colon it
\* returns AlgorithmInvalidName when the part before the first colon is
\* empty, AlgorithmUnknown when that part is not a registered name, and
\* EncodingInvalid when the algorithm is registered and its encoder rejects
\* the part after the first colon.
C2_MismatchErrorByStage ==
    \A t \in Threads :
        (Done(t, "Parse") /\ call[t].s # EmptyString
                          /\ ~DigestRegexpPartsMatch(call[t].s)) =>
            LET before == Cut(call[t].s).before
                after == Cut(call[t].s).after
                colon == \E i \in 1..Len(call[t].s) : call[t].s[i] = ":"
            IN  /\ (ret[t].err = ErrDigestInvalid) <=> ~colon
                /\ (colon /\ before = EmptyString) =>
                       ret[t].err = ErrAlgorithmInvalidName
                /\ (colon /\ before # EmptyString /\ ~Registered(before)) =>
                       ret[t].err = ErrAlgorithmUnknown
                /\ (colon /\ Registered(before)
                          /\ ~Validate(algorithms[before].enc, after)) =>
                       ret[t].err = ErrEncodingInvalid
                /\ ret[t].err # NoError => ret[t].d = ZeroDigest

C2_Witness ==
    \E t \in Threads :
        /\ Done(t, "Parse")
        /\ ~DigestRegexpPartsMatch(call[t].s)
        /\ Cut(call[t].s).before = EmptyString
        /\ Len(call[t].s) > 1
        /\ ret[t].err = ErrAlgorithmInvalidName

\* C3: when Parse of a non-empty string s succeeds with Digest d, d.String()
\* is s, d.Algorithm().String() is the part of s before the first colon and
\* d.Encoded() the part after it.
C3_ParseKeepsString ==
    \A t \in Threads :
        (Done(t, "Parse") /\ call[t].s # EmptyString /\ ret[t].err = NoError) =>
            /\ String(ret[t].d) = call[t].s
            /\ DigestAlgorithm(ret[t].d).name = Cut(call[t].s).before
            /\ Encoded(ret[t].d) = Cut(call[t].s).after

\* C4: for every registered algorithm A and byte sequence b, A.FromBytes(b)
\* succeeds, and Parse of its String() succeeds with a Digest Equal to it.
C4_FromBytesRoundTrip ==
    \A t \in Threads :
        /\ (Done(t, "FromBytes") /\ Registered(call[t].alg.name)) =>
               ret[t].err = NoError
        /\ (Done(t, "Parse") /\ call[t].src.fromDigest
                             /\ call[t].src.op = "FromBytes") =>
               ret[t].err = NoError /\ Equal(ret[t].d, call[t].src.d)

\* C5: for a string that matches the digest grammar, Parse resolves the
\* algorithm before it validates the encoding: an unregistered algorithm part
\* gives AlgorithmUnknown whatever the encoded part is, and a registered one
\* whose encoder rejects the encoded part gives EncodingInvalid.
C5_AlgorithmBeforeEncoding ==
    \A t \in Threads :
        (Done(t, "Parse") /\ DigestRegexpPartsMatch(call[t].s)) =>
            LET before == Cut(call[t].s).before
                after == Cut(call[t].s).after
            IN  /\ ~Registered(before) => ret[t].err = ErrAlgorithmUnknown
                /\ (Registered(before)
                      /\ ~Validate(algorithms[before].enc, after)) =>
                       ret[t].err = ErrEncodingInvalid

C5_Witness ==
    \E t \in Threads :
        /\ Done(t, "Parse")
        /\ DigestRegexpPartsMatch(call[t].s)
        /\ ~Registered(Cut(call[t].s).before)
        /\ ~isHex(Cut(call[t].s).after)
        /\ ret[t].err = ErrAlgorithmUnknown

\* The naming grammar said without an automaton: a non-empty string of name
\* characters and separators that neither starts nor ends with a separator
\* nor has two separators in a row.
NameGrammar(s) ==
    /\ Len(s) > 0
    /\ \A i \in 1..Len(s) : s[i] \in NameChars \cup NameSeparators
    /\ s[1] \in NameChars /\ s[Len(s)] \in NameChars
    /\ \A i \in 1..(Len(s) - 1) : s[i] \in NameChars \/ s[i + 1] \in NameChars

\* The steps of a thread's AlgorithmRegister call that end the checks and
\* that end the call.
ChecksEnd(t) == pc[t] = "reg" /\ pc'[t] # "reg"
RegisterEnds(t) == pc[t] \in {"reg", "store"} /\ pc'[t] = "idle"

\* C6: AlgorithmRegister reports the first failing check in the order name
\* already registered (AlgorithmExists), name outside the naming grammar
\* (AlgorithmInvalidName), nil encoder (EncodeInterfaceInvalid), nil factory,
\* factory returning nil or non-positive size (HashFunctionInvalid); the
\* record is stored only when every check passes.
C6_RegisterCheckOrder ==
    [][\A t \in Threads :
        LET c == call[t]
            badHash == \/ c.newFn.kind \in {"nil", "nilret"}
                       \/ c.newFn.size <= 0
        IN  /\ ChecksEnd(t) =>
                /\ Registered(c.name) => ret'[t].err = ErrAlgorithmExists
                /\ (~Registered(c.name) /\ ~NameGrammar(c.name)) =>
                       ret'[t].err = ErrAlgorithmInvalidName
                /\ (~Registered(c.name) /\ NameGrammar(c.name)
                      /\ c.enc = NilEncoder) =>
                       ret'[t].err = ErrEncodeInterfaceInvalid
                /\ (~Registered(c.name) /\ NameGrammar(c.name)
                      /\ c.enc # NilEncoder /\ badHash) =>
                       ret'[t].err = ErrHashFunctionInvalid
                /\ (~Registered(c.name) /\ NameGrammar(c.name)
                      /\ c.enc # NilEncoder /\ ~badHash) => pc'[t] = "store"
                /\ algorithms' = algorithms
            /\ (pc[t] = "store" /\ pc'[t] = "idle") =>
                /\ ret'[t].err = NoError
                /\ algorithms' = [n \in DOMAIN algorithms \cup {c.name} |->
                                    IF n = c.name
                                    THEN [name |-> c.name, size |-> c.newFn.size,
                                          enc |-> c.enc, newFn |-> c.newFn]
                                    ELSE algorithms[n]]
    ]_vars

C6_Witness ==
    \E t \in Threads :
        /\ Done(t, "Register")
        /\ ret[t].err = ErrAlgorithmExists
        /\ call[t].enc = NilEncoder
        /\ call[t].newFn = NilFactory

\* C7: the registry is append-only: a registered name stays registered with
\* the same record, a later AlgorithmLookup of it succeeds and resolves to
\* that record, and a later AlgorithmRegister of it fails with
\* AlgorithmExists.
C7_RegistryAppendOnly ==
    /\ [][\A n \in DOMAIN algorithms :
            /\ n \in DOMAIN algorithms' /\ algorithms'[n] = algorithms[n]
            /\ \A t \in Threads :
                 (RegisterEnds(t) /\ call[t].name = n) =>
                     ret'[t].err = ErrAlgorithmExists]_vars
    /\ [](\A t \in Threads :
            (Done(t, "Lookup") /\ Registered(call[t].name)) =>
                /\ ret[t].err = NoError
                /\ ret[t].alg = [name |-> call[t].name]
                /\ ret[t].ai = algorithms[call[t].name])

C7_Witness ==
    \E t \in Threads :
        /\ Done(t, "Register")
        /\ call[t].name = <<"a">>
        /\ ret[t].err = ErrAlgorithmExists
        /\ call[t].enc # NilEncoder /\ call[t].newFn.kind = "hash"
        /\ call[t].newFn.size > 0
        /\ algorithms[<<"a">>].newFn # call[t].newFn

\* C8: when several callers register the same new valid name concurrently,
\* exactly one call succeeds and the others fail with AlgorithmExists: a call
\* succeeds only if the name was absent when it returns, its record is the one
\* stored, and no two callers hold a success for the same name.
C8_OneRegistrationWins ==
    /\ [][\A t \in Threads :
            RegisterEnds(t) =>
                /\ ret'[t].err \in {NoError, ErrAlgorithmExists}
                /\ ret'[t].err = NoError <=> ~Registered(call[t].name)
                /\ Registered(call[t].name)'
                /\ ret'[t].err = NoError => algorithms'[call[t].name] = ret'[t].ai
         ]_vars
    /\ [](\A t, u \in Threads :
            (t # u /\ Done(t, "Register") /\ Done(u, "Register")
                   /\ call[t].name = call[u].name) =>
                ~(ret[t].err = NoError /\ ret[u].err = NoError))
    /\ [](\A t, u \in Threads :
            (t # u /\ pc[t] \in {"reg", "store"}) => pc[u] \notin {"reg", "store"})

C8_Witness ==
    \E t, u \in Threads :
        /\ t # u
        /\ Done(t, "Register") /\ Done(u, "Register")
        /\ call[t].name = <<"a">> /\ call[u].name = <<"a">>
        /\ ret[t].err = NoError /\ ret[u].err = ErrAlgorithmExists

\* The steps of a thread's AlgorithmLookup call.
LookupStep(t) ==
    /\ call'[t].op = "Lookup"
    /\ pc[t] \in {"idle", "rlocked"}
    /\ <<pc[t], call[t], ret[t]>> # <<pc'[t], call'[t], ret'[t]>>

\* C9: AlgorithmLookup("") fails with AlgorithmInvalidName, a lookup of a
\* non-empty name that is not registered fails with AlgorithmUnknown, a failed
\* lookup returns the zero Algorithm, and no lookup changes the registry.
C9_LookupFailures ==
    /\ [](\A t \in Threads :
            Done(t, "Lookup") =>
                /\ call[t].name = EmptyString =>
                       ret[t].err = ErrAlgorithmInvalidName
                /\ (call[t].name # EmptyString /\ ~Registered(call[t].name)) =>
                       ret[t].err = ErrAlgorithmUnknown
                /\ ret[t].err # NoError =>
                       ret[t].alg = ZeroAlgorithm /\ ret[t].ai = ZeroInfo)
    /\ [][\A t \in Threads : LookupStep(t) => algorithms' = algorithms]_vars

C9_Witness ==
    \E t \in Threads :
        /\ Done(t, "Lookup")
        /\ call[t].name = <<"b">>
        /\ ret[t].err = ErrAlgorithmUnknown
        /\ ret[t].alg = ZeroAlgorithm
        /\ Registered(<<"a">>)

\* C10: in every state sha256 (size 32, hex length 64) and sha512 (size 64,
\* hex length 128) are registered, the canonical algorithm is sha256, and
\* registering either name again fails with AlgorithmExists.
C10_BuiltinsRegistered ==
    /\ Registered(sha256Name) /\ Registered(sha512Name)
    /\ algorithms[sha256Name].size = 32
    /\ algorithms[sha256Name].enc = EncodeHex(64)
    /\ algorithms[sha512Name].size = 64
    /\ algorithms[sha512Name].enc = EncodeHex(128)
    /\ aiSHA256 = algorithms[sha256Name] /\ SHA256.name = sha256Name
    /\ aiSHA512 = algorithms[sha512Name] /\ SHA512.name = sha512Name
    /\ Canonical = SHA256 /\ aiCanonical = aiSHA256
    /\ \A t \in Threads :
         (Done(t, "Register") /\ call[t].name \in {sha256Name, sha512Name}) =>
             ret[t].err = ErrAlgorithmExists

C10_Witness ==
    \E t \in Threads :
        /\ Done(t, "Register")
        /\ call[t].name = sha512Name
        /\ ret[t].err = ErrAlgorithmExists
        /\ Cardinality(DOMAIN algorithms) > 2

\* The steps that are a call on a Reader or Writer: each such call leaves its
\* record in io and the registry alone, every registry step moves pc.
IOCall(kind, op) == io'.kind = kind /\ io'.op = op /\ UNCHANGED Registry
WriteStep(i) == IOCall("Writer", "Write") /\ io'.id = i
ReadStep == IOCall("Reader", "Read")
NewWriterStep(i) == IOCall("Writer", "NewWriter") /\ io'.id = i
NewReaderStep == IOCall("Reader", "NewReader")

\* C11: a Writer over an initially empty sink that accepts every write leaves
\* the sink with the concatenation of the chunks written, every Write returns
\* the length of its chunk and no error, and Digest() returns what FromBytes
\* of the Writer's algorithm returns for the sink's content, however the
\* content was split into chunks.
C11_WriterPassThrough ==
    /\ [](wr[1].w = BufferSink =>
            WriterDigest(wr[1]) = FromBytesResult(wr[1].alg, sink[1]))
    /\ [][NewWriterStep(1) => sink'[1] = << >>]_vars
    /\ [][WriteStep(1) /\ wr[1].w = BufferSink =>
            /\ sink'[1] = sink[1] \o io'.p
            /\ io'.n = Len(io'.p)
            /\ io'.err = NoCauses]_vars

C11_Witness ==
    /\ io.op = "Write" /\ wr[1].w = BufferSink
    /\ Len(io.p) > 0 /\ Len(sink[1]) > Len(io.p)
    /\ WriterDigest(wr[1]).err = NoError
    /\ WriterDigest(wr[1]) = FromBytesResult(wr[1].alg, sink[1])

\* C12: the bytes a Writer feeds to its hash are the prefixes p[:n] its
\* underlying writer reported as accepted; a write for which it reports
\* n <= 0 feeds nothing, and without an underlying writer the whole buffer is
\* fed and n = len(p).
C12_WriterHashesAccepted ==
    /\ [](wr[1].w # NilSink => wr[1].hash.data = sink[1])
    /\ [][WriteStep(1) /\ wr[1].hash # NilHash =>
            IF wr[1].w # NilSink
            THEN wr'[1].hash.data =
                    wr[1].hash.data \o SubSeq(io'.p, 1, Max(io'.sn, 0))
            ELSE /\ wr'[1].hash.data = wr[1].hash.data \o io'.p
                 /\ io'.n = Len(io'.p)]_vars

C12_Witness ==
    /\ io.op = "Write" /\ wr[1].w = FaultySink
    /\ io.sn > 0 /\ io.sn < Len(io.p) /\ io.serr = {ErrSink}
    /\ wr[1].hash.data = SubSeq(io.p, 1, io.sn)
    /\ sink[1] = SubSeq(io.p, 1, io.sn)

\* C13: the bytes a Reader feeds to its hash are the bytes its Read calls
\* returned to the caller, those returned together with an error of the source
\* included; a call that returns n <= 0 feeds nothing.
C13_ReaderHashesReturned ==
    /\ [][NewReaderStep => rd'.hash.data = << >>]_vars
    /\ [][ReadStep =>
            /\ rd'.hash.data = rd.hash.data \o SubSeq(io'.p, 1, Max(io'.n, 0))
            /\ rd.r # NilSource => io'.n = io'.sn /\ Len(io'.p) = Max(io'.n, 0)]_vars

C13_Witness ==
    /\ io.op = "Read" /\ io.n > 0 /\ io.serr = {EOF}
    /\ Len(rd.hash.data) > io.n
    /\ SubSeq(rd.hash.data, Len(rd.hash.data) - io.n + 1, Len(rd.hash.data))
         = io.p

\* C14: when the underlying reader or writer reports an error and the hash
\* rejects the write of the same call, the error returned holds both causes;
\* when only the hash fails its error is returned, when only the reader or
\* writer fails its error is returned unchanged; the count returned is the
\* one the reader or writer reported.
HashRejected ==
    /\ io.sn > 0
    /\ IF io.kind = "Writer" THEN wr[1].hash.kind = "rejecting"
       ELSE rd.hash.kind = "rejecting"

C14_BothCausesKept ==
    (/\ io.op \in {"Read", "Write"}
     /\ io.kind = "Writer" => wr[1].w # NilSink
     /\ io.kind = "Reader" => rd.r # NilSource)
    => /\ io.n = io.sn
       /\ HashRejected /\ io.serr # NoCauses
            => io.serr \subseteq io.err /\ ErrHashWrite \in io.err
       /\ HashRejected /\ io.serr = NoCauses => io.err = {ErrHashWrite}
       /\ ~HashRejected => io.err = io.serr

C14_Witness ==
    /\ io.op = "Read" /\ HashRejected /\ io.serr = {ErrSource}
    /\ io.err = {ErrSource, ErrHashWrite} /\ io.n > 0

\* C15: Digest() on a Reader or Writer changes nothing: the accumulator keeps
\* the bytes it consumed, a second call without a read or write in between
\* returns an Equal digest, a read or write after Digest() is still accepted,
\* and Digest() returns the digest of all the bytes consumed so far.
DigestNow ==
    IF io.kind = "Writer" THEN WriterDigest(wr[io.id]) ELSE ReaderDigest(rd)
ConsumedDigest ==
    IF io.kind = "Writer"
    THEN DigestOf(wr[io.id].alg,
                  HashWrite(NewHash(newFnOf(wr[io.id].alg)),
                            IF wr[io.id].w # NilSink THEN sink[io.id]
                            ELSE wr[io.id].hash.data))
    ELSE DigestOf(rd.alg, HashWrite(NewHash(newFnOf(rd.alg)), rd.hash.data))

C15_DigestIsProjection ==
    /\ [][IOCall("Writer", "Digest") \/ IOCall("Reader", "Digest") =>
            UNCHANGED <<wr, sink, rd, source>>]_vars
    /\ [](io.op = "Digest" =>
            /\ Equal(DigestNow.d, io.d)
            /\ Causes(DigestNow.err) = io.err
            /\ io.err = NoCauses => Equal(io.d, ConsumedDigest))
    /\ [](io.op = "Write" /\ io.afterDigest /\ wr[io.id].hash # NilHash =>
            ErrWriterInvalid \notin io.err)
    /\ [](io.op = "Read" /\ io.afterDigest /\ rd.r # NilSource =>
            ErrReaderInvalid \notin io.err)

C15_Witness ==
    /\ io.op = "Write" /\ io.afterDigest /\ io.n > 0 /\ io.err = NoCauses
    /\ Len(wr[io.id].hash.data) > io.n
    /\ WriterDigest(wr[io.id]).err = NoError

\* The digest of the empty input under algorithm alg.
EmptyDigest(alg) == DigestOf(alg, NewHash(newFnOf(alg)))

\* C16: on a zero-value Writer, Write and Digest fail with ErrWriterInvalid,
\* and on a zero-value Reader, Read, ReadAll and Digest fail with
\* ErrReaderInvalid; a Reader or Writer built by NewReader or NewWriter that
\* has consumed nothing returns from Digest(), without error, the digest of
\* the empty input of its algorithm.
C16_UninitializedVsEmpty ==
    /\ io.kind = "Writer" /\ io.op \in {"Write", "Digest"}
         /\ wr[io.id] = ZeroWriter
         => io.err = {ErrWriterInvalid} /\ io.n = 0 /\ IsZero(io.d)
    /\ io.kind = "Reader" /\ io.op \in {"Read", "ReadAll", "Digest"}
         /\ rd = ZeroReader
         => io.err = {ErrReaderInvalid} /\ io.n = 0 /\ IsZero(io.d)
    /\ io.kind = "Writer" /\ io.op = "Digest" /\ wr[io.id].hash # NilHash
         /\ wr[io.id].hash.data = << >>
         => /\ io.err = NoCauses
            /\ ~IsZero(io.d) /\ io.d = EmptyDigest(wr[io.id].alg)
    /\ io.kind = "Reader" /\ io.op = "Digest" /\ rd.hash # NilHash
         /\ rd.hash.data = << >>
         => /\ io.err = NoCauses
            /\ ~IsZero(io.d) /\ io.d = EmptyDigest(rd.alg)

\* C17: on a Reader that NewReader built without a source, Read and ReadAll
\* fail with ErrReaderInvalid, return n = 0 and leave the accumulator alone,
\* so that Digest() still succeeds with the digest of the empty input.
C17_ReaderWithoutSource ==
    rd.r = NilSource /\ rd.hash # NilHash
    => /\ rd.hash.data = << >>
       /\ io.kind = "Reader" /\ io.op \in {"Read", "ReadAll"}
            => io.err = {ErrReaderInvalid} /\ io.n = 0
       /\ ReaderDigest(rd).err = NoError
       /\ ReaderDigest(rd).d = EmptyDigest(rd.alg)
       /\ ~IsZero(ReaderDigest(rd).d)

\* C18: Verify(c) on a Reader or Writer is true exactly when Digest()
\* succeeds, c is not the zero Digest and c has the algorithm name and the
\* encoded value of the current digest; Verify changes nothing.
C18_VerifySemantics ==
    /\ [](io.op = "Verify" =>
            (io.ok <=> /\ DigestNow.err = NoError
                       /\ ~(io.cmp.alg = EmptyString /\ io.cmp.enc = EmptyString)
                       /\ io.cmp.alg = DigestNow.d.alg
                       /\ io.cmp.enc = DigestNow.d.enc))
    /\ [][IOCall("Writer", "Verify") \/ IOCall("Reader", "Verify") =>
            UNCHANGED <<wr, sink, rd, source>>]_vars

C18_Witness ==
    /\ io.op = "Verify" /\ io.kind = "Reader" /\ io.ok
    /\ rd.hash.data # << >> /\ io.cmp = ReaderDigest(rd).d

\* C19: NewReader and NewWriter bind to the algorithm they are given when it
\* is valid and to the canonical algorithm, sha256, when it is the zero or an
\* invalid Algorithm; no call changes the binding, and every Digest() result
\* carries the bound algorithm's name and an encoded value of that
\* algorithm's length.
BoundTo(alg) ==
    IF alg.name # EmptyString /\ alg.name \in DOMAIN algorithms THEN alg
    ELSE [name |-> sha256Name]
BoundAlgorithm == IF io.kind = "Writer" THEN wr[io.id].alg ELSE rd.alg

C19_BoundToOneAlgorithm ==
    /\ [][NewWriterStep(1) =>
            wr'[1].alg = BoundTo(io'.alg) /\ wr'[1].hash.id = newFnOf(wr'[1].alg).id]_vars
    /\ [][NewReaderStep =>
            rd'.alg = BoundTo(io'.alg) /\ rd'.hash.id = newFnOf(rd'.alg).id]_vars
    /\ [][~NewWriterStep(1) /\ ~NewReaderStep /\ wr[1].hash # NilHash =>
            wr'[1].alg = wr[1].alg]_vars
    /\ [][~NewWriterStep(1) /\ ~NewReaderStep /\ rd.hash # NilHash =>
            rd'.alg = rd.alg]_vars
    /\ [](io.op = "Digest" /\ (io.kind = "Writer" => wr[io.id].hash # NilHash)
                          /\ (io.kind = "Reader" => rd.hash # NilHash)
            => /\ io.d.alg = BoundAlgorithm.name
               /\ Len(io.d.enc) = algorithms[BoundAlgorithm.name].enc.Len)

\* C20: Algorithm.Digester() fails with ErrAlgorithmInvalidName on the zero
\* Algorithm; on a registered Algorithm every call returns a Digester with a
\* new, empty accumulator of its own, and a write to one Digester leaves the
\* other alone, so that each Digest() depends on the bytes written to that
\* Digester only.
DigesterStepOf(i) == IOCall("Writer", "Digester") /\ io'.id = i

C20_DigestersIndependent ==
    /\ [](io.op = "Digester" /\ io.alg = ZeroAlgorithm =>
            io.err = {ErrAlgorithmInvalidName})
    /\ [](io.op = "Digester" /\ io.alg # ZeroAlgorithm =>
            io.err = NoCauses /\ wr[io.id].hash.data = << >>
            /\ wr[io.id].hash # NilHash /\ wr[io.id].alg = io.alg)
    /\ [][\A i \in DigesterIds :
            DigesterStepOf(i) \/ WriteStep(i) =>
                /\ \A j \in DigesterIds \ {i} : wr'[j] = wr[j]
                /\ DigesterStepOf(i) /\ io'.alg = ZeroAlgorithm => wr'[i] = wr[i]
                /\ WriteStep(i) /\ wr[i].hash # NilHash =>
                     wr'[i].hash.data = wr[i].hash.data \o io'.p]_vars
    /\ [](\A i \in DigesterIds : wr[i].hash # NilHash =>
            WriterDigest(wr[i]) = FromBytesResult(wr[i].alg, wr[i].hash.data))

C20_Witness ==
    /\ io.op = "Digest" /\ io.err = NoCauses
    /\ wr[1].alg = wr[2].alg /\ wr[1].hash # NilHash
    /\ wr[1].hash.data # << >> /\ wr[2].hash.data # << >>
    /\ wr[1].hash.data # wr[2].hash.data
    /\ WriterDigest(wr[1]).d # WriterDigest(wr[2]).d

\* C23: EncodeHex{Len}.Encode(b) fails with ErrEncodingInvalid exactly when
\* 2*len(b) differs from Len; otherwise it returns a text of exactly Len
\* lower-case hex characters that Validate accepts.
LowerHex(s) == \A i \in 1..Len(s) : s[i] \in Digits \cup HexLetters
C23_EncodeHexEncode ==
    io.op = "Encode" =>
        /\ (io.err = {ErrEncodingInvalid}) = (2 * Len(io.p) # io.enc.Len)
        /\ io.err \in {NoCauses, {ErrEncodingInvalid}}
        /\ io.err = NoCauses =>
              /\ Len(io.text.data) = io.enc.Len
              /\ LowerHex(io.text.data)
              /\ EncodeHexValidate(io.enc, io.text.data)

C23_Witness ==
    /\ io.op = "Encode" /\ io.err = NoCauses
    /\ io.p = <<171, 10>> /\ io.text.data = <<"a", "b", "0", "a">>

\* C24: EncodeHex{Len}.Validate(s) is true exactly when len(s) equals Len and
\* every character of s is one of 0-9 and a-f; a wrong length, an upper-case
\* digit, another letter or a character of several bytes make it false.
C24_EncodeHexValidate ==
    io.op = "Validate" =>
        /\ io.ok = (ByteLen(io.s) = io.enc.Len /\ LowerHex(io.s))
        /\ (\E i \in 1..Len(io.s) : io.s[i] \in UpperLetters \cup MultiByteChars)
              => ~io.ok
        /\ Len(io.s) # io.enc.Len => ~io.ok

C24_Witness ==
    /\ io.op = "Validate" /\ ~io.ok
    /\ io.s = <<EAcute>> /\ io.enc.Len = ByteLen(io.s)

\* C26: d.AppendText(b) returns b unchanged and no error for the zero Digest,
\* b unchanged and ErrDigestInvalid for a Digest with exactly one empty
\* component, and otherwise b followed by name, colon and encoded value;
\* d.MarshalText() returns what d.AppendText(nil) returns.
HalfEmpty(d) == (d.alg = EmptyString) # (d.enc = EmptyString)
C26_AppendText ==
    /\ io.op = "AppendText" =>
          /\ IsZero(io.d) => io.text.data = io.b.data /\ io.err = NoCauses
          /\ HalfEmpty(io.d) => io.text = io.b /\ io.err = {ErrDigestInvalid}
          /\ (io.d.alg # EmptyString /\ io.d.enc # EmptyString) =>
                /\ io.text.data = io.b.data \o io.d.alg \o <<":">> \o io.d.enc
                /\ io.err = NoCauses
    /\ io.op = "MarshalText" =>
          /\ io.text = AppendText(io.d, NilBuf).text
          /\ io.err = Causes(AppendText(io.d, NilBuf).err)

C26_Witness ==
    /\ io.op = "AppendText" /\ HalfEmpty(io.d) /\ io.b = Buf(<<"x">>)
    /\ io.text = Buf(<<"x">>) /\ io.err = {ErrDigestInvalid}

\* C27: Parse("") and UnmarshalText of an empty text return the zero Digest
\* without error in every state of the registry; the zero Digest reports
\* IsZero and renders as the empty string and the empty text; no Digest that
\* Parse or UnmarshalText returns without error for a non-empty string is
\* zero.
C27_ZeroDigestEmptyString ==
    /\ (io.op = "Parse" /\ io.s = EmptyString) =>
          IsZero(io.d) /\ io.err = NoCauses
    /\ (io.op = "UnmarshalText" /\ io.b.data = EmptyString) =>
          IsZero(io.d) /\ IsZero(digest) /\ io.err = NoCauses
    /\ IsZero(digest) =>
          /\ String(digest) = EmptyString
          /\ MarshalText(digest) = [text |-> Buf(<< >>), err |-> NoError]
    /\ (io.op = "MarshalText" /\ IsZero(io.d)) =>
          io.text = Buf(<< >>) /\ io.err = NoCauses
    /\ (io.op = "Parse" /\ io.s # EmptyString /\ io.err = NoCauses) =>
          ~IsZero(io.d)
    /\ (io.op = "UnmarshalText" /\ io.b.data # EmptyString
          /\ io.err = NoCauses) => ~IsZero(io.d)

C27_Witness ==
    /\ io.op = "UnmarshalText" /\ io.b = NilBuf /\ io.err = NoCauses
    /\ ~IsZero(io.cmp) /\ IsZero(digest)
    /\ <<"a">> \in DOMAIN algorithms

\* C28: a d.UnmarshalText(text) whose Parse fails returns that error and
\* leaves the receiver's fields as they were; one whose Parse succeeds
\* replaces the receiver by the Digest Parse(string(text)) returns.
C28_UnmarshalTextAllOrNothing ==
    [][IOCall("Digest", "UnmarshalText") =>
          IF ParseResult(StringOfText(io'.b)).err # NoError
          THEN /\ io'.err = {ParseResult(StringOfText(io'.b)).err}
               /\ digest' = digest
          ELSE /\ io'.err = NoCauses
               /\ Equal(digest', ParseResult(StringOfText(io'.b)).d)
               /\ digest' = ParseResult(StringOfText(io'.b)).d]_vars

C28_Witness ==
    /\ io.op = "UnmarshalText" /\ io.err = {ErrEncodingInvalid}
    /\ io.b = Buf(<<"a", ":", "F", "F">>)
    /\ io.cmp = [enc |-> <<"a", "a">>, alg |-> <<"a">>]
    /\ digest = io.cmp

\* C25: for every algorithm that AlgorithmRegister accepted and every byte
\* slice p, A.Encode(p) fails whenever len(p) differs from A.Size().
C25_EncodeRejectsOtherSizes ==
    (io.op = "Encode" /\ io.kind = "Algorithm"
        /\ io.alg.name \in DOMAIN algorithms /\ Len(io.p) # io.n) =>
            io.err # NoCauses

\* The step in which a call of AlgorithmRegister by t returns an error.
RegisterFails(t) == pc[t] = "reg" /\ pc'[t] = "idle"
RegisterErrors == {ErrAlgorithmExists, ErrAlgorithmInvalidName,
                   ErrEncodeInterfaceInvalid, ErrHashFunctionInvalid}

\* C29 as stated: a failed AlgorithmRegister leaves the registry as it was and
\* returns the zero Algorithm, and an AlgorithmLookup of the rejected new name
\* after it fails with ErrAlgorithmUnknown.
C29_FailedRegisterThenUnknown ==
    [][\A t \in Threads : RegisterFails(t) =>
          /\ algorithms' = algorithms
          /\ ret'[t].alg = ZeroAlgorithm /\ ret'[t].err \in RegisterErrors
          /\ call[t].name \notin DOMAIN algorithms =>
                algorithmInfoLookup(call[t].name).err = ErrAlgorithmUnknown]_vars

\* C29: a failed AlgorithmRegister leaves the registry as it was and returns
\* the zero Algorithm, and an AlgorithmLookup of the rejected new name after
\* it fails: with ErrAlgorithmInvalidName for the empty name and with
\* ErrAlgorithmUnknown for every other name.
C29_FailedRegisterNoEffect ==
    [][\A t \in Threads : RegisterFails(t) =>
          /\ algorithms' = algorithms
          /\ ret'[t].alg = ZeroAlgorithm /\ ret'[t].err \in RegisterErrors
          /\ call[t].name \notin DOMAIN algorithms =>
                algorithmInfoLookup(call[t].name).err =
                    IF call[t].name = EmptyString THEN ErrAlgorithmInvalidName
                    ELSE ErrAlgorithmUnknown]_vars

C29_Witness ==
    /\ Done(1, "Register") /\ ret[1].err = ErrEncodeInterfaceInvalid
    /\ call[1].name = <<"a">> /\ <<"a">> \notin DOMAIN algorithms
    /\ ret[1].alg = ZeroAlgorithm

\* The record a successful AlgorithmRegister of name stores in full.
CompleteRecord(ai, name) ==
    /\ ai.name = name
    /\ ai.enc # NilEncoder
    /\ ai.newFn.kind = "hash"
    /\ ai.size > 0 /\ ai.size = NewHash(ai.newFn).size

\* The step in which the AlgorithmLookup of t reads the map and returns.
LookupReturns(t) ==
    pc[t] = "rlocked" /\ pc'[t] = "idle" /\ call[t].op = "Lookup"

\* C30: under every interleaving of AlgorithmLookup(name) with concurrent
\* AlgorithmRegister(name, ...) calls for a new valid name, a lookup returns
\* ErrAlgorithmUnknown with the zero Algorithm or the finished registration
\* with its complete record, never a partial one; a lookup that reads the map
\* after a lookup of the same name succeeded succeeds with the same record.
C30_LookupSeesNoneOrAll ==
    /\ [](\A t \in Threads :
            (Done(t, "Lookup") /\ call[t].name \notin {sha256Name, sha512Name}) =>
                \/ /\ ret[t].err = ErrAlgorithmUnknown
                   /\ ret[t].alg = ZeroAlgorithm /\ ret[t].ai = ZeroInfo
                \/ /\ ret[t].err = NoError
                   /\ ret[t].alg = [name |-> call[t].name]
                   /\ CompleteRecord(ret[t].ai, call[t].name)
                   /\ Registered(call[t].name)
                   /\ algorithms[call[t].name] = ret[t].ai)
    /\ [][\A t, u \in Threads :
            (LookupReturns(t) /\ t # u /\ Done(u, "Lookup")
                /\ call[u].name = call[t].name /\ ret[u].err = NoError) =>
                    ret'[t].err = NoError /\ ret'[t].ai = ret[u].ai]_vars

C30_Witness ==
    \E t, u \in Threads :
        /\ Done(t, "Lookup") /\ call[t].name = <<"a">>
        /\ ret[t].err = ErrAlgorithmUnknown
        /\ Done(u, "Lookup") /\ call[u].name = <<"a">>
        /\ ret[u].err = NoError /\ CompleteRecord(ret[u].ai, <<"a">>)

\* C21: a FromReader whose source returns an error other than EOF, before any
\* data, between chunks or together with data, returns that error and the
\* zero Digest; FromReader, FromBytes and FromString on the zero Algorithm
\* fail with ErrAlgorithmInvalidName and the zero Digest, and FromReader then
\* has read nothing from its source.
C21_FromReaderErrors ==
    /\ (io.op = "FromReader" /\ io.serr \notin {NoCauses, {EOF}}) =>
          io.err = io.serr /\ io.d = ZeroDigest
    /\ (io.op \in {"FromReader", "FromBytes", "FromString"}
          /\ io.kind = "Algorithm" /\ io.alg = ZeroAlgorithm) =>
          /\ io.err = {ErrAlgorithmInvalidName} /\ io.d = ZeroDigest
          /\ io.op = "FromReader" => source.given = << >>

C21_Witness ==
    /\ io.op = "FromReader" /\ io.serr = {ErrSource} /\ io.sn > 0
    /\ Len(source.given) > io.sn
    /\ io.err = {ErrSource} /\ io.d = ZeroDigest

\* C22: for a registered algorithm and bytes b, FromBytes(b), FromString of
\* the string with those bytes, FromReader over a source that hands out b in
\* any chunks and then EOF, a Digester fed b by Write calls, a Reader read to
\* EOF by Read calls and a Reader after ReadAll() give the same result, and
\* the result of a FromBytes call is what the same call gives again.
SameAsFromBytes(res, a, b) ==
    /\ Equal(res.d, FromBytesResult(a, b).d)
    /\ res.err = FromBytesResult(a, b).err

Recorded == [d |-> io.d,
             err |-> IF io.err = NoCauses THEN NoError
                     ELSE CHOOSE e \in io.err : TRUE]

C22_AllPathsAgree ==
    /\ (io.op = "FromReader" /\ io.serr = {EOF} /\ io.alg # ZeroAlgorithm) =>
          SameAsFromBytes(Recorded, io.alg, source.given)
    /\ (io.op = "FromString" /\ io.kind = "Algorithm") =>
          SameAsFromBytes(Recorded, io.alg, BytesOfString(io.s))
    /\ (io.op = "FromBytes" /\ io.kind = "Algorithm") =>
          SameAsFromBytes(Recorded, io.alg, io.p)
    /\ (~InCopy /\ wr[1].hash # NilHash /\ algorithmsMu.writer = 0) =>
          SameAsFromBytes(WriterDigest(wr[1]), wr[1].alg, wr[1].hash.data)
    /\ (io.op = "Read" /\ io.kind = "Reader" /\ io.serr = {EOF}
          /\ rd.r # NilSource /\ algorithmsMu.writer = 0) =>
          SameAsFromBytes(ReaderDigest(rd), rd.alg, source.given)
    /\ (io.op = "ReadAll" /\ io.err = NoCauses /\ rd.r # NilSource
          /\ algorithmsMu.writer = 0) =>
          SameAsFromBytes(ReaderDigest(rd), rd.alg, source.given)

C22_Witness ==
    /\ io.op = "FromReader" /\ io.serr = {EOF} /\ io.alg = [name |-> <<"a">>]
    /\ io.err = NoCauses /\ ~IsZero(io.d)
    /\ io.sn > 0 /\ Len(source.given) > io.sn

====
